---- MODULE Spec2Model ----
(***************************************************************************)
(* A model of the onixpy message engine: the ONIXMessage entity            *)
(* (src/onix/message.py), the XML and JSON parsers and serialisers         *)
(* (src/onix/parsers/xml.py, json.py), the tag resolver                    *)
(* (src/onix/parsers/tags.py), the code-list registry                      *)
(* (src/onix/lists/__init__.py) and the identifier composites.             *)
(*                                                                         *)
(* Python values are tagged records of one shape, so that any two values   *)
(* can be compared: k is the kind, s the text of a str (or "True"/"False"  *)
(* of a bool), d the items of a dict as a set of <<key, value>> pairs and  *)
(* l the items of a list.  A dict keeps no insertion order here; where the *)
(* code iterates over a dict the model iterates in the order of KeyOrder.  *)
(***************************************************************************)
EXTENDS Integers, Sequences, FiniteSets, TLC

----------------------------------------------------------------------------
(* The state *)

VARIABLES
    held,       \* TRUE when the application holds a message
    message,    \* the ONIXMessage the application holds
    pristine,   \* TRUE while the message is as its construction left it
    doc,        \* the document at hand
    last,       \* the last call of a constructor or parser and its outcome
    composite,  \* the last construction of an identifier composite
    cross,      \* the last comparison of the two tag styles
    tables,     \* the module-level dicts of parsers.tags and parsers.fields
    resolved,   \* the last lookups of a name in the tag tables
    built,      \* the last construction of an ONIXModel entity from a dict
    batch,      \* the iterable last handed to a parser
    opened,     \* the text or path last handed to the XML parser
    looked      \* the last lookup in the code lists

----------------------------------------------------------------------------
(* Python values *)

S(x) == [k |-> "str", s |-> x, d |-> {}, l |-> <<>>]

D(pairs) == [k |-> "dict", s |-> "", d |-> pairs, l |-> <<>>]

L(seq) == [k |-> "list", s |-> "", d |-> {}, l |-> seq]

B(b) == [k |-> "bool", s |-> IF b THEN "True" ELSE "False", d |-> {}, l |-> <<>>]

NoneV == [k |-> "none", s |-> "", d |-> {}, l |-> <<>>]

Keys(pairs) == {p[1] : p \in pairs}

HasKey(pairs, key) == key \in Keys(pairs)

\* dict[key]
Get(pairs, key) == (CHOOSE p \in pairs : p[1] = key)[2]

\* dict.get(key, default)
GetOr(pairs, key, default) == IF HasKey(pairs, key) THEN Get(pairs, key) ELSE default

\* dict[key] = value
Put(pairs, key, value) == {p \in pairs : p[1] # key} \cup {<<key, value>>}

\* str(value) for the values the serialiser writes as element text
StrOf(v) == IF v.k \in {"str", "bool"} THEN v.s
            ELSE IF v.k = "none" THEN "None" ELSE "<repr>"

\* the elements of a set as a sequence, in the order given by the sequence ord
RECURSIVE InOrder(_, _)
InOrder(ord, set) ==
    IF ord = <<>> THEN <<>>
    ELSE IF Head(ord) \in set THEN <<Head(ord)>> \o InOrder(Tail(ord), set)
         ELSE InOrder(Tail(ord), set)

----------------------------------------------------------------------------
(* Tag resolver: src/onix/parsers/tags.py *)

\* _REFERENCE_TO_SHORT, as the import of the module leaves it
REFERENCE_TO_SHORT ==
    { <<"ONIXMessage", "ONIXmessage">>, <<"Header", "header">>,
      <<"Product", "product">>, <<"NoProduct", "x507">> }

\* _SHORT_TO_REFERENCE = {v: k for k, v in _REFERENCE_TO_SHORT.items()}
SHORT_TO_REFERENCE == { <<p[2], p[1]>> : p \in REFERENCE_TO_SHORT }

\* a lookup that raises KeyError (here: gives "") for a name without entry
to_short_tag_indexing(reference_name) ==
    IF HasKey(tables.reference_to_short, reference_name)
    THEN Get(tables.reference_to_short, reference_name) ELSE ""

\* _REFERENCE_TO_SHORT.get(reference_name, reference_name)
to_short_tag(reference_name) ==
    GetOr(tables.reference_to_short, reference_name, reference_name)

\* the name given back without a lookup
to_reference_tag_unmapped(short_tag) == short_tag

\* _SHORT_TO_REFERENCE.get(short_tag, short_tag)
to_reference_tag(short_tag) ==
    GetOr(tables.short_to_reference, short_tag, short_tag)

is_short_tag(tag_name) == HasKey(tables.short_to_reference, tag_name)

is_reference_tag(tag_name) == HasKey(tables.reference_to_short, tag_name)

----------------------------------------------------------------------------
(* Field/tag mapping: onix.parsers.fields.  The module is imported by      *)
(* xml.py but is not among the sources; it is modelled from the            *)
(* specification (section 4.2) and from the registrations xml.py makes.    *)

\* the names the model's documents and entities are built from
RefTags ==
    { "ONIXMessage", "Header", "Product", "NoProduct", "Sender", "SenderName",
      "SentDateTime", "SenderIdentifier", "SenderIDType", "IDValue",
      "Addressee", "AddresseeName", "RecordReference", "ProductIdentifier",
      "ProductIDType", "UnknownElement" }

\* generic CamelCase -> snake_case conversion, on the names of the model;
\* a name without capitals is its own conversion
camel_to_snake(tag) ==
    CASE tag = "ONIXMessage" -> "onix_message"
      [] tag = "Header" -> "header"
      [] tag = "Product" -> "product"
      [] tag = "NoProduct" -> "no_product"
      [] tag = "Sender" -> "sender"
      [] tag = "SenderName" -> "sender_name"
      [] tag = "SentDateTime" -> "sent_date_time"
      [] tag = "SenderIdentifier" -> "sender_identifier"
      [] tag = "SenderIDType" -> "sender_id_type"
      [] tag = "IDValue" -> "id_value"
      [] tag = "Addressee" -> "addressee"
      [] tag = "AddresseeName" -> "addressee_name"
      [] tag = "RecordReference" -> "record_reference"
      [] tag = "ProductIdentifier" -> "product_identifier"
      [] tag = "ProductIDType" -> "product_id_type"
      [] tag = "UnknownElement" -> "unknown_element"
      [] OTHER -> tag

\* generic snake_case -> CamelCase conversion, on the names of the model
snake_to_camel(name) ==
    CASE name = "header" -> "Header"
      [] name = "product" -> "Product"
      [] name = "products" -> "Products"
      [] name = "no_product" -> "NoProduct"
      [] name = "sender" -> "Sender"
      [] name = "sender_name" -> "SenderName"
      [] name = "sent_date_time" -> "SentDateTime"
      [] name = "sender_identifiers" -> "SenderIdentifiers"
      [] name = "sender_id_type" -> "SenderIDType"
      [] name = "id_value" -> "IDValue"
      [] name = "addressees" -> "Addressees"
      [] name = "addressee_name" -> "AddresseeName"
      [] name = "record_reference" -> "RecordReference"
      [] name = "product_identifiers" -> "ProductIdentifiers"
      [] name = "product_id_type" -> "ProductIDType"
      [] name = "unknown_element" -> "UnknownElement"
      [] name = "x507" -> "X507"
      [] OTHER -> name

\* what _register_models() registers: the aliases of the fields of Header,
\* Sender, SenderIdentifier, Addressee, AddresseeIdentifier and Product
\* (ONIXMessage in message.py declares no alias), then the four plural
\* mappings
RegisteredTags ==
    { <<"Sender", "sender">>, <<"Addressee", "addressees">>,
      <<"SentDateTime", "sent_date_time">>,
      <<"SenderIdentifier", "sender_identifiers">>,
      <<"SenderName", "sender_name">>,
      <<"SenderIDType", "sender_id_type">>, <<"IDValue", "id_value">>,
      <<"AddresseeIdentifier", "addressee_identifiers">>,
      <<"AddresseeName", "addressee_name">>,
      <<"RecordReference", "record_reference">>,
      <<"ProductIdentifier", "product_identifiers">>,
      <<"Product", "products">> }

\* register_model / register_plural_mapping: each pair is stored under its
\* tag and under its field name, replacing what the key held
register(t, pairs) ==
    LET inverse == {<<p[2], p[1]>> : p \in pairs}
    IN [t EXCEPT
          !.tag_to_field = {p \in @ : ~HasKey(pairs, p[1])} \cup pairs,
          !.field_to_tag = {p \in @ : ~HasKey(inverse, p[1])} \cup inverse]

\* a registration that removes the entries it finds already registered
register_models_dropping(t) ==
    IF RegisteredTags \subseteq t.tag_to_field
    THEN [t EXCEPT !.tag_to_field = @ \ RegisteredTags]
    ELSE register(t, RegisteredTags)

\* _register_models(): it writes to the tables of parsers.fields only
register_models(t) == register(t, RegisteredTags)

\* fields.clear_caches()
clear_caches(t) == [t EXCEPT !.tag_to_field = {}, !.field_to_tag = {}]

\* the tables once onix.parsers.xml is imported
ImportedTables ==
    register_models([reference_to_short |-> REFERENCE_TO_SHORT,
                     short_to_reference |-> SHORT_TO_REFERENCE,
                     tag_to_field |-> {}, field_to_tag |-> {},
                     phase |-> "built"])

tag_to_field_name(tag) ==
    IF HasKey(tables.tag_to_field, tag) THEN Get(tables.tag_to_field, tag)
    ELSE camel_to_snake(tag)

field_name_to_tag(name) ==
    IF HasKey(tables.field_to_tag, name) THEN Get(tables.field_to_tag, name)
    ELSE snake_to_camel(name)

----------------------------------------------------------------------------
(* Entities: src/onix/message.py *)

\* the shared attributes declared by ONIXAttributes
AttrNames == {"datestamp", "sourcename", "sourcetype"}

\* the order in which the model walks the keys of a dict
KeyOrder ==
    << "release", "datestamp", "sourcename", "sourcetype", "header",
       "sender", "Sender", "sender_identifiers", "sender_id_type",
       "sender_name", "addressees", "addressee_name", "sent_date_time",
       "Product", "product", "products", "record_reference",
       "product_identifiers",
       "product_id_type", "id_value", "no_product", "x507",
       "unknown_element" >>

\* ONIXAttributes (and its placeholder subclasses Header and Product):
\* Optional[str] attributes, extra="allow", so every other key is kept as is
ONIXAttributes(v) ==
    IF v.k # "dict" \/ \E a \in AttrNames :
                          HasKey(v.d, a) /\ Get(v.d, a).k \notin {"str", "none"}
    THEN [ok |-> FALSE, value |-> NoneV]
    ELSE [ok |-> TRUE,
          value |-> D({p \in v.d : ~(p[1] \in AttrNames /\ p[2].k = "none")})]

\* the strings pydantic's lax bool validation accepts
BoolTrueStrings == {"1", "on", "t", "true", "y", "yes"}

BoolFalseStrings == {"0", "off", "f", "false", "n", "no"}

\* no_product: bool = False
validate_bool(v) ==
    CASE v.k = "bool" -> [ok |-> TRUE, b |-> (v.s = "True")]
      [] v.k = "str" /\ v.s \in BoolTrueStrings -> [ok |-> TRUE, b |-> TRUE]
      [] v.k = "str" /\ v.s \in BoolFalseStrings -> [ok |-> TRUE, b |-> FALSE]
      [] OTHER -> [ok |-> FALSE, b |-> FALSE]

\* products: list[Product] = []
validate_products(v) ==
    IF v.k # "list" \/ \E i \in 1..Len(v.l) : ~ONIXAttributes(v.l[i]).ok
    THEN [ok |-> FALSE, l |-> <<>>]
    ELSE [ok |-> TRUE, l |-> [i \in 1..Len(v.l) |-> ONIXAttributes(v.l[i]).value]]

NoMessage ==
    [release |-> "", header |-> NoneV, products |-> <<>>, no_product |-> FALSE,
     rest |-> {}]

Failure == [ok |-> FALSE, msg |-> NoMessage]

MessageFields == {"release", "header", "products", "no_product"}

\* the validator without the line that sets the flag of a message with no
\* products
validate_products_no_product_keeps_flag(m) ==
    IF m.products # <<>> /\ m.no_product THEN Failure
    ELSE [ok |-> TRUE, msg |-> m]

\* the "after" model validator of ONIXMessage
validate_products_no_product(m) ==
    IF m.products # <<>> /\ m.no_product THEN Failure
    ELSE IF m.products = <<>> THEN [ok |-> TRUE, msg |-> [m EXCEPT !.no_product = TRUE]]
    ELSE [ok |-> TRUE, msg |-> m]

\* ONIXMessage.model_validate(data) / ONIXMessage(**data): the fields are
\* validated, the keys that are no field are kept (extra="allow"), then the
\* "after" validator runs
ONIXMessage(data) ==
    IF data.k # "dict" THEN Failure
    ELSE LET kw == data.d
             release == GetOr(kw, "release", S("3.1"))
             header == IF HasKey(kw, "header")
                       THEN ONIXAttributes(Get(kw, "header"))
                       ELSE [ok |-> FALSE, value |-> NoneV]
             products == validate_products(GetOr(kw, "products", L(<<>>)))
             no_product == validate_bool(GetOr(kw, "no_product", B(FALSE)))
             rest == ONIXAttributes(D({p \in kw : p[1] \notin MessageFields}))
         IN IF release.k = "str" /\ header.ok /\ products.ok /\ no_product.ok
               /\ rest.ok
            THEN validate_products_no_product(
                     [release |-> release.s, header |-> header.value,
                      products |-> products.l, no_product |-> no_product.b,
                      rest |-> rest.value.d])
            ELSE Failure

\* model.model_dump(exclude_none=True, exclude_defaults=True) of a Header or
\* a Product: a key whose value is None is left out
attributes_dump(v) == D({p \in v.d : p[2].k # "none"})

\* message.model_dump(exclude_none=True, exclude_defaults=True)
model_dump(m) ==
    (IF m.release # "3.1" THEN {<<"release", S(m.release)>>} ELSE {})
    \cup {<<"header", attributes_dump(m.header)>>}
    \cup (IF m.products # <<>>
          THEN {<<"products",
                  L([i \in 1..Len(m.products) |-> attributes_dump(m.products[i])])>>}
          ELSE {})
    \cup (IF m.no_product THEN {<<"no_product", B(TRUE)>>} ELSE {})
    \cup {p \in m.rest : p[2].k # "none"}

----------------------------------------------------------------------------
(* XML: src/onix/parsers/xml.py.  An element is a record of its tag, its   *)
(* attributes (a set of <<name, text>> pairs), its text ("" when it has    *)
(* none: the parser reads child.text or "") and its children.              *)

Element(tag, attrib, text, children) ==
    [tag |-> tag, attrib |-> attrib, text |-> text, children |-> children]

\* the attributes _dict_to_element and message_to_xml set from the data
attributes_of(data) ==
    {<<a, StrOf(Get(data, a))>> : a \in {x \in AttrNames : HasKey(data, x)}}

RECURSIVE dict_to_element(_, _, _)
RECURSIVE children_of(_, _, _)

\* the elements _dict_to_element appends for one item of the data
child_elements(key, value, short_names) ==
    LET ref_tag == field_name_to_tag(key)
        child_tag == IF short_names THEN to_short_tag(ref_tag) ELSE ref_tag
        item(v) == IF v.k = "dict" THEN dict_to_element(child_tag, v.d, short_names)
                   ELSE Element(child_tag, {}, StrOf(v), <<>>)
    IN IF value.k = "list" THEN [i \in 1..Len(value.l) |-> item(value.l[i])]
       ELSE <<item(value)>>

\* the loop of _dict_to_element over data.items(), for the keys in keys
children_of(keys, data, short_names) ==
    IF keys = <<>> THEN <<>>
    ELSE child_elements(Head(keys), Get(data, Head(keys)), short_names)
         \o children_of(Tail(keys), data, short_names)

dict_to_element(tag, data, short_names) ==
    Element(tag, attributes_of(data), "",
            children_of(InOrder(KeyOrder, Keys(data) \ AttrNames), data, short_names))

message_to_xml(msg, short_names) ==
    LET data == model_dump(msg)
        root_tag == IF short_names THEN to_short_tag("ONIXMessage") ELSE "ONIXMessage"
        header_tag == IF short_names THEN to_short_tag("Header") ELSE "Header"
        no_product_tag == IF short_names THEN to_short_tag("NoProduct") ELSE "NoProduct"
        product_tag == IF short_names THEN to_short_tag("Product") ELSE "Product"
        header_data == GetOr(data, "header", D({}))
        products == GetOr(data, "products", L(<<>>)).l
    IN Element(root_tag,
               {<<"release", StrOf(GetOr(data, "release", S("3.1")))>>}
                   \cup attributes_of(data),
               "",
               <<dict_to_element(header_tag, header_data.d, short_names)>>
               \o (IF HasKey(data, "no_product") /\ Get(data, "no_product") = B(TRUE)
                   THEN <<Element(no_product_tag, {}, "", <<>>)>>
                   ELSE [i \in 1..Len(products) |->
                            dict_to_element(product_tag, products[i].d, short_names)]))

\* the keys _element_to_dict always turns into a dict
ComplexElements ==
    { "header", "products", "no_product", "sender", "sender_identifiers",
      "addressees", "addressee_identifiers" }

\* the keys _element_to_dict never flattens
list_fields ==
    { "products", "sender_identifiers", "addressees", "addressee_identifiers" }

RECURSIVE element_to_dict(_, _)
element_to_dict(element, normalize_tags) ==
    LET child_key(child) ==
            tag_to_field_name(IF normalize_tags THEN to_reference_tag(child.tag)
                              ELSE child.tag)
        child_value(child) ==
            IF Len(child.children) = 0 /\ child.attrib = {}
               /\ child_key(child) \notin ComplexElements
            THEN S(child.text)
            ELSE D(element_to_dict(child, normalize_tags))
        keys == {child_key(element.children[i]) : i \in 1..Len(element.children)}
        values(key) ==
            LET same == SelectSeq(element.children, LAMBDA c : child_key(c) = key)
            IN [i \in 1..Len(same) |-> child_value(same[i])]
        flattened(key) ==
            IF key \in list_fields \/ Len(values(key)) > 1 THEN L(values(key))
            ELSE values(key)[1]
        attributes ==
            {<<p[1], S(p[2])>> :
                p \in {q \in element.attrib : q[1] \in {"release"} \cup AttrNames}}
    IN {p \in attributes : p[1] \notin keys} \cup {<<key, flattened(key)>> : key \in keys}

\* xml_to_message, for a source that is an element or the text of a document
xml_to_message(root, short_names) ==
    ONIXMessage(D(element_to_dict(root, ~short_names)))

\* the elements below an element, in document order
RECURSIVE descendants(_)
descendants(element) ==
    LET below[i \in 0..Len(element.children)] ==
            IF i = 0 THEN <<>>
            ELSE below[i - 1] \o <<element.children[i]>>
                 \o descendants(element.children[i])
    IN below[Len(element.children)]

\* _find_products: findall(".//Product"), then findall(".//product")
find_products(root) ==
    SelectSeq(descendants(root), LAMBDA e : e.tag = "Product")
    \o SelectSeq(descendants(root), LAMBDA e : e.tag = "product")

\* _normalize_input of xml.py, for a source that is an iterable of elements
RECURSIVE products_of_all(_)
products_of_all(elements) ==
    IF elements = <<>> THEN <<>>
    ELSE find_products(Head(elements)) \o products_of_all(Tail(elements))

\* an element without the Product and product elements below it
RECURSIVE without_products(_)
without_products(element) ==
    LET kept == SelectSeq(element.children,
                          LAMBDA e : e.tag \notin {"Product", "product"})
    IN [element EXCEPT
           !.children = [i \in 1..Len(kept) |-> without_products(kept[i])]]

\* the libraries an element handed to the parser may come from
ElementLibraries == {"stdlib", "lxml"}

\* the elements of the iterable once _normalize_input has returned: the
\* first is copied; root.append(prod) leaves prod under its parent as well
\* with xml.etree and moves it out of its parent with lxml
elements_after(lib, elements) ==
    IF lib = "lxml"
    THEN [i \in 1..Len(elements) |->
             IF i = 1 THEN elements[i] ELSE without_products(elements[i])]
    ELSE elements

xml_normalize_input(elements) ==
    IF elements = <<>>
    THEN Element("ONIXMessage", {<<"release", "3.1">>}, "",
                 <<Element("Header", {}, "", <<>>)>>)
    ELSE [elements[1] EXCEPT
             !.children = @ \o products_of_all(Tail(elements))]


----------------------------------------------------------------------------
(* JSON: src/onix/parsers/json.py *)

\* key_map of _normalize_json_keys
key_map ==
    { <<"Header", "header">>, <<"header", "header">>, <<"Product", "products">>,
      <<"product", "products">>, <<"products", "products">>,
      <<"NoProduct", "no_product">>, <<"noproduct", "no_product">>,
      <<"x507", "no_product">>, <<"release", "release">> }

\* k[0].isupper(), on the names of the model
starts_upper(key) == key \in {"Sender", "UnknownElement"} \cup RefTags

\* k.lower(), on the names of the model
lower(key) ==
    CASE key = "Sender" -> "sender"
      [] key = "SenderName" -> "sendername"
      [] key = "UnknownElement" -> "unknownelement"
      [] OTHER -> key

normalized_key(key) ==
    IF HasKey(key_map, key) THEN Get(key_map, key)
    ELSE IF starts_upper(key) THEN lower(key) ELSE key

RECURSIVE normalize_json_keys(_)
RECURSIVE normalize_items(_, _)

\* the loop of normalize() over obj.items(): a later key replaces an
\* earlier one that is renamed to the same name
normalize_items(keys, data) ==
    IF keys = <<>> THEN {}
    ELSE LET key == keys[Len(keys)]
         IN Put(normalize_items(SubSeq(keys, 1, Len(keys) - 1), data),
                normalized_key(key), normalize_json_keys(Get(data, key)))

normalize_json_keys(obj) ==
    CASE obj.k = "dict" -> D(normalize_items(InOrder(KeyOrder, Keys(obj.d)), obj.d))
      [] obj.k = "list" -> L([i \in 1..Len(obj.l) |-> normalize_json_keys(obj.l[i])])
      [] OTHER -> obj

RECURSIVE convert_reference_to_short(_)
RECURSIVE convert_items(_, _)

convert_items(keys, data) ==
    IF keys = <<>> THEN {}
    ELSE LET key == keys[Len(keys)]
         IN Put(convert_items(SubSeq(keys, 1, Len(keys) - 1), data),
                to_short_tag(key), convert_reference_to_short(Get(data, key)))

convert_reference_to_short(obj) ==
    CASE obj.k = "dict" -> D(convert_items(InOrder(KeyOrder, Keys(obj.d)), obj.d))
      [] obj.k = "list" ->
            L([i \in 1..Len(obj.l) |-> convert_reference_to_short(obj.l[i])])
      [] OTHER -> obj

message_to_dict(msg, short_names) ==
    LET dump == model_dump(msg)
        data == D(IF HasKey(dump, "header") THEN dump ELSE Put(dump, "header", D({})))
    IN IF short_names THEN convert_reference_to_short(data) ELSE data

\* json_to_message, for a source that is a single dict
json_to_message(source, short_names) ==
    ONIXMessage(IF short_names THEN normalize_json_keys(source) ELSE source)

\* messages.get("products", [])
products_in(msg_dict) == GetOr(msg_dict.d, "products", L(<<>>)).l

RECURSIVE products_of_dicts(_)
products_of_dicts(messages) ==
    IF messages = <<>> THEN <<>>
    ELSE products_in(Head(messages)) \o products_of_dicts(Tail(messages))

\* _normalize_input of json.py, for a source that is an iterable of dicts
json_normalize_input(messages) ==
    IF messages = <<>> THEN D({<<"header", D({})>>, <<"products", L(<<>>)>>})
    ELSE D(Put(messages[1].d, "products", L(products_of_dicts(messages))))


----------------------------------------------------------------------------
(* Code lists and the identifier composites: src/onix/lists/__init__.py,   *)
(* src/onix/_base.py, src/onix/header/header.py, src/onix/product/b1       *)

\* CodeListEntry, with the attributes the model reads
CodeListEntry(list_number, code, heading) ==
    [list_number |-> list_number, code |-> code, heading |-> heading]

\* _LIST_44_ENTRIES
LIST_44_ENTRIES ==
    { <<"01", CodeListEntry(44, "01", "Proprietary name ID scheme")>>,
      <<"06", CodeListEntry(44, "06", "GLN")>>,
      <<"07", CodeListEntry(44, "07", "SAN")>>,
      <<"16", CodeListEntry(44, "16", "ISNI")>>,
      <<"21", CodeListEntry(44, "21", "ORCID")>> }

\* _LIST_44
LIST_44 ==
    [number |-> 44, heading |-> "Name identifier type",
     entries |-> LIST_44_ENTRIES]

\* _CODE_LISTS: the registry holds List 44 only
CODE_LISTS == { <<44, LIST_44>> }

\* get_list: _CODE_LISTS.get(list_number)
get_list(list_number) == GetOr(CODE_LISTS, list_number, NoneV)

\* CodeList.get: self.entries.get(code)
CodeList_get(code_list, code) == GetOr(code_list.entries, code, NoneV)

\* get_code with the lookup made in List 44 whatever the number
get_code_of_list_44(list_number, code) == CodeList_get(LIST_44, code)

get_code(list_number, code) ==
    LET code_list == get_list(list_number)
    IN IF code_list = NoneV THEN NoneV ELSE CodeList_get(code_list, code)

\* List5 is imported from onix.lists but is not defined by the sources;
\* these are codes of ONIX List 5 (product identifier type)
List5 == {"01", "02", "03", "15"}

\* the codes of the model that are exactly two digits
TwoDigits == {"01", "02", "06", "10", "15", "99"}

\* normalize(value), the function ONIXModel._normalize_strings defines
RECURSIVE normalize(_)
normalize(value) ==
    CASE value.k = "dict" -> D({<<p[1], normalize(p[2])>> : p \in value.d})
      [] value.k = "list" -> L([i \in 1..Len(value.l) |-> normalize(value.l[i])])
      [] value = S("") -> NoneV
      [] OTHER -> value

\* what a TypeError raised by a validator leaves in place of a value
Raised == [k |-> "TypeError", s |-> "", d |-> {}, l |-> <<>>]

\* the hook that looks at the values of the dict only, not inside them
normalize_strings_shallow(values) ==
    IF values.k # "dict" THEN Raised
    ELSE D({<<p[1], IF p[2] = S("") THEN NoneV ELSE p[2]>> : p \in values.d})

\* ONIXModel._normalize_strings, the "before" validator of every entity
normalize_strings(values) ==
    IF values.k # "dict" THEN Raised
    ELSE D({<<p[1], normalize(p[2])>> : p \in values.d})

\* validate_proprietary_id_type returns without raising
validate_proprietary_id_type(id_type, id_type_name) ==
    ~(id_type = "01" /\ (id_type_name.k = "none" \/ id_type_name.s = ""))

Composites ==
    { "SenderIdentifier", "AddresseeIdentifier", "RecordSourceIdentifier",
      "ProductIdentifier", "EpubLicenseExpression", "ProductClassification" }

\* one error of a ValidationError: why the value was refused and, when the
\* message names a code list, the number of the list (0 when it names none)
Err(reason, list) == [reason |-> reason, list |-> list]

\* the message without the number of the list
NotInList_unnumbered(list_number, v) ==
    IF get_code(list_number, v) # NoneV THEN {} ELSE {Err("code_list", 0)}

\* "... is not a valid List n code" / "... must be from List n"
NotInList(list_number, v) ==
    IF get_code(list_number, v) # NoneV THEN {} ELSE {Err("code_list", list_number)}

\* "... must be exactly 2 digits", raised before the list is looked at
TwoDigitsThen(list_number, v) ==
    IF v \notin TwoDigits THEN {Err("format", 0)} ELSE NotInList(list_number, v)

\* what the field validator of the type code of each composite raises
id_type_errors(kind, v) ==
    CASE kind = "SenderIdentifier" -> NotInList(44, v)
      [] kind = "AddresseeIdentifier" -> NotInList(44, v)
      [] kind = "RecordSourceIdentifier" -> TwoDigitsThen(44, v)
      [] kind = "ProductIdentifier" ->
            IF v \in List5 THEN {} ELSE {Err("code_list", 5)}
      [] kind = "EpubLicenseExpression" -> TwoDigitsThen(218, v)
      [] kind = "ProductClassification" -> TwoDigitsThen(9, v)

\* the field validator of the type code of each composite passes
validate_id_type(kind, v) == id_type_errors(kind, v) = {}

\* the errors of the construction of a composite from its type code and
\* its scheme name, the other required fields being given and valid; the
\* "after" validator runs only when every field is valid
composite_errors(kind, id_type, id_type_name) ==
    LET type == normalize(id_type)
        name == normalize(id_type_name)
        field_errors ==
            (IF type.k # "str" THEN {Err("string_type", 0)}
             ELSE id_type_errors(kind, type.s))
            \cup (IF name.k \in {"str", "none"} THEN {}
                  ELSE {Err("string_type", 0)})
    IN IF field_errors # {} THEN field_errors
       ELSE IF validate_proprietary_id_type(type.s, name) THEN {}
       ELSE {Err("name_required", 0)}

\* TRUE when the construction succeeds
construct_composite(kind, id_type, id_type_name) ==
    composite_errors(kind, id_type, id_type_name) = {}

----------------------------------------------------------------------------
(* The header entities: src/onix/header/header.py.  An entity is built     *)
(* from a dict; the model gives the errors of the ValidationError, the     *)
(* empty set when the entity is built.                                     *)

\* the value given for a field, by field name or by alias
Given(d, name, alias) == HasKey(d, name) \/ HasKey(d, alias)

FieldValue(d, name, alias) ==
    IF HasKey(d, alias) THEN Get(d, alias) ELSE GetOr(d, name, NoneV)

\* extra="forbid"
extra_errors(d, names) ==
    IF Keys(d) \subseteq names THEN {} ELSE {Err("extra_forbidden", 0)}

\* a field declared str
required_str(d, name, alias) ==
    IF ~Given(d, name, alias) THEN {Err("missing", 0)}
    ELSE IF FieldValue(d, name, alias).k = "str" THEN {}
    ELSE {Err("string_type", 0)}

\* a field declared str | None = None
optional_str(d, name, alias) ==
    IF FieldValue(d, name, alias).k \in {"str", "none"} THEN {}
    ELSE {Err("string_type", 0)}

\* a field declared str | None whose validator looks the code up
optional_code(d, name, alias, list_number) ==
    LET v == FieldValue(d, name, alias)
    IN IF v.k = "none" THEN {}
       ELSE IF v.k = "str" THEN NotInList(list_number, v.s)
       ELSE {Err("string_type", 0)}

\* SenderIdentifier(**data) and AddresseeIdentifier(**data)
identifier_errors(kind, data) ==
    LET values == normalize_strings(data)
        d == values.d
        type_name == IF kind = "SenderIdentifier" THEN "sender_id_type"
                     ELSE "addressee_id_type"
        type_alias == IF kind = "SenderIdentifier" THEN "SenderIDType"
                      ELSE "AddresseeIDType"
        type == FieldValue(d, type_name, type_alias)
        field_errors ==
            extra_errors(d, {type_name, type_alias, "id_type_name",
                             "IDTypeName", "id_value", "IDValue"})
            \cup required_str(d, type_name, type_alias)
            \cup (IF type.k = "str" THEN id_type_errors(kind, type.s) ELSE {})
            \cup optional_str(d, "id_type_name", "IDTypeName")
            \cup required_str(d, "id_value", "IDValue")
    IN IF values.k # "dict" THEN {Err("model_type", 0)}
       ELSE IF field_errors # {} THEN field_errors
       ELSE IF type.s = "01"
               /\ FieldValue(d, "id_type_name", "IDTypeName").k = "none"
            THEN {Err("name_required", 0)}
       ELSE {}

\* a field declared list[...] with default_factory=list: the error of a
\* value that is no list, and the items of one that is
list_errors(d, name, alias) ==
    IF Given(d, name, alias) /\ FieldValue(d, name, alias).k # "list"
    THEN {Err("list_type", 0)} ELSE {}

list_items(d, name, alias) ==
    IF Given(d, name, alias) /\ FieldValue(d, name, alias).k = "list"
    THEN FieldValue(d, name, alias).l ELSE <<>>

SenderIdentifierErrors(data) == identifier_errors("SenderIdentifier", data)

AddresseeIdentifierErrors(data) == identifier_errors("AddresseeIdentifier", data)

\* Sender(**data)
sender_errors(data) ==
    LET values == normalize_strings(data)
        d == values.d
        identifiers == FieldValue(d, "sender_identifiers", "SenderIdentifier")
        given == list_items(d, "sender_identifiers", "SenderIdentifier")
        field_errors ==
            extra_errors(d, {"sender_identifiers", "SenderIdentifier",
                             "sender_name", "SenderName"})
            \cup list_errors(d, "sender_identifiers", "SenderIdentifier")
            \cup (UNION {SenderIdentifierErrors(given[i]) : i \in 1..Len(given)})
            \cup optional_str(d, "sender_name", "SenderName")
    IN IF values.k # "dict" THEN {Err("model_type", 0)}
       ELSE IF field_errors # {} THEN field_errors
       ELSE IF FieldValue(d, "sender_name", "SenderName").k = "none"
               /\ identifiers.l = <<>>
            THEN {Err("empty_sender", 0)}
       ELSE {}

\* Addressee(**data)
addressee_errors(data) ==
    LET values == normalize_strings(data)
        d == values.d
        given == list_items(d, "addressee_identifiers", "AddresseeIdentifier")
    IN IF values.k # "dict" THEN {Err("model_type", 0)}
       ELSE extra_errors(d, {"addressee_identifiers", "AddresseeIdentifier",
                             "addressee_name", "AddresseeName"})
            \cup list_errors(d, "addressee_identifiers", "AddresseeIdentifier")
            \cup (UNION {AddresseeIdentifierErrors(given[i]) : i \in 1..Len(given)})
            \cup optional_str(d, "addressee_name", "AddresseeName")

\* the strings given as sent date-times, and the characters of each
DateTimeStrings ==
    { "20231201",
      "20231201T1030",
      "20231201T1030Z",
      "20231201T103000",
      "20231201T103000Z",
      "20240229T235959Z",
      "2023-12-01",
      "2023-12-01T12:00:00",
      "not-a-date",
      "20231301",
      "20230229",
      "20231201T2430",
      "20231201T103060",
      "20231201Z",
      "20231201T1030ZZ",
      "2023121",
      "20231201t1030",
      "20231201T",
      "Z" }

Chars(s) ==
    CASE s = "20231201" ->
           <<"2", "0", "2", "3", "1", "2", "0", "1">>
      [] s = "20231201T1030" ->
           <<"2", "0", "2", "3", "1", "2", "0", "1", "T", "1", "0", "3", "0">>
      [] s = "20231201T1030Z" ->
           <<"2", "0", "2", "3", "1", "2", "0", "1", "T", "1", "0", "3", "0", "Z">>
      [] s = "20231201T103000" ->
           <<"2", "0", "2", "3", "1", "2", "0", "1", "T", "1", "0", "3", "0", "0", "0">>
      [] s = "20231201T103000Z" ->
           <<"2", "0", "2", "3", "1", "2", "0", "1", "T", "1", "0", "3", "0", "0", "0", "Z">>
      [] s = "20240229T235959Z" ->
           <<"2", "0", "2", "4", "0", "2", "2", "9", "T", "2", "3", "5", "9", "5", "9", "Z">>
      [] s = "2023-12-01" ->
           <<"2", "0", "2", "3", "-", "1", "2", "-", "0", "1">>
      [] s = "2023-12-01T12:00:00" ->
           <<"2", "0", "2", "3", "-", "1", "2", "-", "0", "1", "T", "1", "2", ":", "0", "0", ":", "0", "0">>
      [] s = "not-a-date" ->
           <<"n", "o", "t", "-", "a", "-", "d", "a", "t", "e">>
      [] s = "20231301" ->
           <<"2", "0", "2", "3", "1", "3", "0", "1">>
      [] s = "20230229" ->
           <<"2", "0", "2", "3", "0", "2", "2", "9">>
      [] s = "20231201T2430" ->
           <<"2", "0", "2", "3", "1", "2", "0", "1", "T", "2", "4", "3", "0">>
      [] s = "20231201T103060" ->
           <<"2", "0", "2", "3", "1", "2", "0", "1", "T", "1", "0", "3", "0", "6", "0">>
      [] s = "20231201Z" ->
           <<"2", "0", "2", "3", "1", "2", "0", "1", "Z">>
      [] s = "20231201T1030ZZ" ->
           <<"2", "0", "2", "3", "1", "2", "0", "1", "T", "1", "0", "3", "0", "Z", "Z">>
      [] s = "2023121" ->
           <<"2", "0", "2", "3", "1", "2", "1">>
      [] s = "20231201t1030" ->
           <<"2", "0", "2", "3", "1", "2", "0", "1", "t", "1", "0", "3", "0">>
      [] s = "20231201T" ->
           <<"2", "0", "2", "3", "1", "2", "0", "1", "T">>
      [] s = "Z" ->
           <<"Z">>
      [] OTHER -> <<>>

Digits == {"0", "1", "2", "3", "4", "5", "6", "7", "8", "9"}

DigitVal(c) == CHOOSE n \in 0..9 : <<"0", "1", "2", "3", "4", "5", "6", "7", "8", "9">>[n + 1] = c

\* the number a run of digits writes
RECURSIVE NumberOf(_)
NumberOf(chars) ==
    IF chars = <<>> THEN 0
    ELSE 10 * NumberOf(SubSeq(chars, 1, Len(chars) - 1)) + DigitVal(chars[Len(chars)])

AllDigits(chars) == \A i \in 1..Len(chars) : chars[i] \in Digits

\* str.rstrip("Z")
RECURSIVE rstrip_Z(_)
rstrip_Z(chars) ==
    IF chars # <<>> /\ chars[Len(chars)] = "Z"
    THEN rstrip_Z(SubSeq(chars, 1, Len(chars) - 1))
    ELSE chars

\* the numbers a directive of strptime takes in two characters and in one:
\* %m is 1[0-2]|0[1-9]|[1-9], %d is 3[01]|[12]\d|0[1-9]|[1-9]| [1-9],
\* %H is 2[0-3]|[0-1]\d|\d, %M is [0-5]\d|\d, %S is 6[0-1]|[0-5]\d|\d
TwoCharacters(directive) ==
    CASE directive = "m" -> 1..12
      [] directive = "d" -> 1..31
      [] directive = "H" -> 0..23
      [] directive = "M" -> 0..59
      [] directive = "S" -> 0..61
      [] OTHER -> {}

OneCharacter(directive) ==
    CASE directive \in {"m", "d"} -> 1..9
      [] directive \in {"H", "M", "S"} -> 0..9
      [] OTHER -> {}

\* the ways a directive matches the start of the text, in the order the
\* regular expression of strptime tries them: <<characters taken, value>>
alternatives(directive, chars) ==
    IF directive = "Y"
    THEN IF Len(chars) >= 4 /\ AllDigits(SubSeq(chars, 1, 4))
         THEN << <<4, NumberOf(SubSeq(chars, 1, 4))>> >> ELSE <<>>
    ELSE IF directive = "T"
    THEN \* a literal of the format, matched with re.IGNORECASE
         IF chars # <<>> /\ chars[1] \in {"T", "t"} THEN << <<1, 0>> >> ELSE <<>>
    ELSE (IF /\ Len(chars) >= 2
             /\ AllDigits(SubSeq(chars, 1, 2))
             /\ NumberOf(SubSeq(chars, 1, 2)) \in TwoCharacters(directive)
          THEN << <<2, NumberOf(SubSeq(chars, 1, 2))>> >> ELSE <<>>)
         \o
         (IF /\ chars # <<>>
             /\ chars[1] \in Digits
             /\ DigitVal(chars[1]) \in OneCharacter(directive)
          THEN << <<1, DigitVal(chars[1])>> >> ELSE <<>>)
         \o
         (IF /\ directive = "d"
             /\ Len(chars) >= 2
             /\ chars[1] = " "
             /\ chars[2] \in Digits \ {"0"}
          THEN << <<2, DigitVal(chars[2])>> >> ELSE <<>>)

NoMatch == [ok |-> FALSE, vals |-> <<>>]

\* the first match of the whole text against the format, if there is one
RECURSIVE strptime_match(_, _)
strptime_match(chars, fmt) ==
    IF fmt = <<>> THEN [ok |-> chars = <<>>, vals |-> <<>>]
    ELSE LET alts == alternatives(Head(fmt), chars)
             tried == [i \in 1..Len(alts) |->
                          strptime_match(SubSeq(chars, alts[i][1] + 1, Len(chars)),
                                         Tail(fmt))]
             hits == {i \in 1..Len(alts) : tried[i].ok}
         IN IF hits = {} THEN NoMatch
            ELSE LET i == CHOOSE h \in hits : \A g \in hits : h <= g
                 IN [ok |-> TRUE, vals |-> <<alts[i][2]>> \o tried[i].vals]

LeapYear(y) == (y % 4 = 0 /\ y % 100 # 0) \/ y % 400 = 0

DaysIn(month, year) ==
    CASE month \in {4, 6, 9, 11} -> 30
      [] month = 2 -> IF LeapYear(year) THEN 29 ELSE 28
      [] OTHER -> 31

\* datetime.strptime(text, format) returns a datetime: the text matches
\* and datetime(...) takes the values
strptime(chars, fmt) ==
    LET m == strptime_match(chars, fmt)
    IN /\ m.ok
       /\ m.vals[1] >= 1
       /\ m.vals[3] <= DaysIn(m.vals[2], m.vals[1])
       /\ (Len(fmt) = 7) => (m.vals[7] <= 59)

\* formats of validate_sent_date_time
formats ==
    { <<"Y", "m", "d">>, <<"Y", "m", "d", "T", "H", "M">>,
      <<"Y", "m", "d", "T", "H", "M", "S">> }

\* Header.validate_sent_date_time
validate_sent_date_time(d) ==
    LET v == FieldValue(d, "sent_date_time", "SentDateTime")
    IN IF /\ v.k = "str"
          /\ ~\E fmt \in formats : strptime(rstrip_Z(Chars(v.s)), fmt)
       THEN {Err("format", 0)} ELSE {}

\* Header(**data), on the fields the headers of the model give
header_errors(data) ==
    LET values == normalize_strings(data)
        d == values.d
        sender == FieldValue(d, "sender", "Sender")
        given == list_items(d, "addressees", "Addressee")
    IN IF values.k # "dict" THEN {Err("model_type", 0)}
       ELSE extra_errors(d, {"sender", "Sender", "addressees", "Addressee",
                             "sent_date_time", "SentDateTime",
                             "default_language_of_text", "DefaultLanguageOfText",
                             "default_price_type", "DefaultPriceType",
                             "default_currency_code", "DefaultCurrencyCode"})
            \cup (IF sender.k = "none" THEN {Err("missing", 0)}
                  ELSE sender_errors(sender))
            \cup list_errors(d, "addressees", "Addressee")
            \cup (UNION {addressee_errors(given[i]) : i \in 1..Len(given)})
            \cup required_str(d, "sent_date_time", "SentDateTime")
            \cup validate_sent_date_time(d)
            \cup optional_code(d, "default_language_of_text",
                               "DefaultLanguageOfText", 74)
            \cup optional_code(d, "default_price_type", "DefaultPriceType", 58)
            \cup optional_code(d, "default_currency_code",
                               "DefaultCurrencyCode", 96)

\* List1 is imported from onix.lists but is not defined by the sources;
\* these are the codes of ONIX List 1 (notification or update type)
List1 == {"01", "02", "03", "04", "05", "08", "09", "88", "89"}

\* ProductIdentifier(**data)
product_identifier_errors(data) ==
    LET values == normalize_strings(data)
        d == values.d
        type == FieldValue(d, "product_id_type", "ProductIDType")
        field_errors ==
            extra_errors(d, {"product_id_type", "ProductIDType", "id_type_name",
                             "IDTypeName", "id_value", "IDValue"})
            \cup required_str(d, "product_id_type", "ProductIDType")
            \cup (IF type.k = "str"
                  THEN id_type_errors("ProductIdentifier", type.s) ELSE {})
            \cup optional_str(d, "id_type_name", "IDTypeName")
            \cup required_str(d, "id_value", "IDValue")
    IN IF values.k # "dict" THEN {Err("model_type", 0)}
       ELSE IF field_errors # {} THEN field_errors
       ELSE IF validate_proprietary_id_type(
                   type.s, FieldValue(d, "id_type_name", "IDTypeName"))
            THEN {}
       ELSE {Err("name_required", 0)}

\* a deletion text of 101 characters; the other texts of the model are
\* shorter than that
LongText == "x * 101"

text_len(txt) == IF txt = LongText THEN 101 ELSE 16

\* Product._validate_deletion_texts, on a list of str
validate_deletion_texts(v) ==
    IF \E i \in 1..Len(v) : text_len(v[i].s) > 100
    THEN {Err("too_long", 0)} ELSE {}

\* the check of the deletion texts left out
validate_deletion_texts_allowed_always(deletion_texts, notification_type) == {}

\* Product._validate_deletion_texts_allowed
validate_deletion_texts_allowed(deletion_texts, notification_type) ==
    IF deletion_texts # <<>> /\ notification_type # "05"
    THEN {Err("deletion_not_allowed", 0)} ELSE {}

\* Product(**data), on the fields the products of the model give
product_errors(data) ==
    LET values == normalize_strings(data)
        d == values.d
        type == FieldValue(d, "notification_type", "NotificationType")
        texts == list_items(d, "deletion_texts", "DeletionText")
        identifiers == list_items(d, "product_identifiers", "ProductIdentifier")
        field_errors ==
            extra_errors(d, {"record_reference", "RecordReference",
                             "notification_type", "NotificationType",
                             "deletion_texts", "DeletionText",
                             "record_source_type", "RecordSourceType",
                             "record_source_identifiers", "RecordSourceIdentifier",
                             "record_source_name", "RecordSourceName",
                             "product_identifiers", "ProductIdentifier",
                             "barcodes", "Barcode",
                             "descriptive_detail", "DescriptiveDetail"})
            \cup required_str(d, "record_reference", "RecordReference")
            \cup required_str(d, "notification_type", "NotificationType")
            \cup (IF type.k = "str" /\ type.s \notin List1
                  THEN {Err("code_list", 1)} ELSE {})
            \cup list_errors(d, "deletion_texts", "DeletionText")
            \cup (IF \E i \in 1..Len(texts) : texts[i].k # "str"
                  THEN {Err("string_type", 0)}
                  ELSE validate_deletion_texts(texts))
            \cup (IF ~Given(d, "product_identifiers", "ProductIdentifier")
                  THEN {Err("missing", 0)}
                  ELSE list_errors(d, "product_identifiers", "ProductIdentifier"))
            \cup (IF /\ Given(d, "product_identifiers", "ProductIdentifier")
                     /\ FieldValue(d, "product_identifiers",
                                   "ProductIdentifier").k = "list"
                     /\ identifiers = <<>>
                  THEN {Err("too_short", 0)} ELSE {})
            \cup (UNION {product_identifier_errors(identifiers[i]) :
                            i \in 1..Len(identifiers)})
    IN IF values.k # "dict" THEN {Err("model_type", 0)}
       ELSE IF field_errors # {} THEN field_errors
       ELSE validate_deletion_texts_allowed(texts, type.s)

\* the entities the model builds from dicts
Entities == {"SenderIdentifier", "Sender", "Header", "Product"}

entity_errors(model, data) ==
    CASE model = "SenderIdentifier" -> SenderIdentifierErrors(data)
      [] model = "Sender" -> sender_errors(data)
      [] model = "Header" -> header_errors(data)
      [] model = "Product" -> product_errors(data)

----------------------------------------------------------------------------
(* The inputs of the model *)

\* the longest product list an application builds
MaxProducts == 2

Absent == [k |-> "absent", s |-> "", d |-> {}, l |-> <<>>]

SeqsUpTo(set, n) == UNION {[1..len -> set] : len \in 0..n}

HeaderWithLists ==
    D({ <<"sender",
          D({<<"sender_name", S("Test Publisher")>>,
             <<"sender_identifiers",
               L(<<D({<<"sender_id_type", S("16")>>, <<"id_value", S("1")>>})>>)>>})>>,
        <<"addressees", L(<<D({<<"addressee_name", S("Reader")>>})>>)>>,
        <<"sent_date_time", S("20231201")>> })

\* a header keyed by reference tag name
HeaderByTag == D({<<"Sender", D({<<"sender_name", S("Test Publisher")>>})>>})

Headers == {D({}), HeaderWithLists, HeaderByTag}

ProductPlain == D({<<"record_reference", S("r1")>>})

ProductIdentified ==
    D({ <<"record_reference", S("r2")>>,
        <<"product_identifiers",
          L(<<D({<<"product_id_type", S("15")>>, <<"id_value", S("9780000000001")>>}),
              D({<<"product_id_type", S("03")>>, <<"id_value", S("0000000001")>>})>>)>> })

Products == {ProductPlain, ProductIdentified}

ProductLists == SeqsUpTo(Products, MaxProducts)

\* the keyword arguments of one call of ONIXMessage(...)
Arguments(header, products, no_product, release, more) ==
    D({p \in { <<"header", header>>, <<"products", products>>,
               <<"no_product", no_product>>, <<"release", release>> } :
          p[2] # Absent} \cup more)

\* the same call with the header and the products keyed by reference tag
ArgumentsByTag(header, products) ==
    D({<<"Header", header>>, <<"Product", products>>})

ConstructInputs ==
    { Arguments(header, products, no_product, release, more) :
        header \in Headers \cup {Absent},
        products \in {L(ps) : ps \in ProductLists} \cup {Absent},
        no_product \in {B(TRUE), B(FALSE), Absent},
        release \in {S("3.0"), Absent},
        more \in { {}, {<<"unknown_element", S("x")>>, <<"sourcename", S("feed")>>} } }
    \cup
    { ArgumentsByTag(header, L(ps)) : header \in Headers, ps \in ProductLists }

\* a tag of a document written in the given style; a document in short
\* style uses the short tags the resolver knows
Tag(short, reference_name) ==
    IF short THEN to_short_tag(reference_name) ELSE reference_name

Leaf(tag, text) == Element(tag, {}, text, <<>>)

RecordRef(i) ==
    CASE i = 1 -> "r1" [] i = 2 -> "r2" [] i = 3 -> "r3" [] OTHER -> "r4"

\* <Product><RecordReference>r_i</RecordReference></Product>
ProductElement(short, i) ==
    Element(Tag(short, "Product"), {}, "", <<Leaf("RecordReference", RecordRef(i))>>)

\* <Header><Sender><SenderName/>...</Sender>...<SentDateTime/></Header>
HeaderElement(short, in_sender, in_header) ==
    Element(Tag(short, "Header"), {}, "",
            <<Element("Sender", {}, "",
                      <<Leaf("SenderName", "Test Publisher")>> \o in_sender)>>
            \o in_header \o <<Leaf("SentDateTime", "20231201")>>)

Document(short, header, body) ==
    [fmt |-> "xml", origin |-> "external", short |-> short, data |-> NoneV,
     root |-> Element(Tag(short, "ONIXMessage"), {<<"release", "3.1">>}, "",
                      <<header>> \o body)]

SenderIdentifierElement ==
    Element("SenderIdentifier", {}, "",
            <<Leaf("SenderIDType", "16"), Leaf("IDValue", "1")>>)

AddresseeElement ==
    Element("Addressee", {}, "", <<Leaf("AddresseeName", "Reader")>>)

\* the documents an application hands to the parser
ExternalDocuments ==
    UNION { { Document(short, HeaderElement(short, <<>>, <<>>),
                       [i \in 1..n |-> ProductElement(short, i)]) :
                 n \in 0..MaxProducts }
            \cup
            { \* the no-product marker
              Document(short, HeaderElement(short, <<>>, <<>>),
                       <<Leaf(Tag(short, "NoProduct"), "")>>),
              \* an element the message does not define
              Document(short, HeaderElement(short, <<>>, <<>>),
                       <<Leaf("UnknownElement", "x"), ProductElement(short, 1)>>),
              \* an element the sender does not define
              Document(short,
                       HeaderElement(short, <<Leaf("UnknownElement", "x")>>, <<>>),
                       <<ProductElement(short, 1)>>),
              \* a second name of the sender
              Document(short,
                       HeaderElement(short, <<Leaf("SenderName", "Last Name")>>,
                                     <<>>),
                       <<ProductElement(short, 1)>>),
              \* one occurrence of each repeatable element of the header
              Document(short,
                       HeaderElement(short, <<SenderIdentifierElement>>,
                                     <<AddresseeElement>>),
                       <<ProductElement(short, 1)>>) } :
            short \in BOOLEAN }

\* the longest iterable an application hands to a parser
MaxBatch == 2

\* the elements of an iterable handed to xml_to_message, all in one style:
\* messages with no, one and two products, with and without an addressee,
\* and the message with the no-product marker
BatchElements(short) ==
    { Document(short, HeaderElement(short, <<>>, in_header),
               [i \in 1..Len(refs) |-> ProductElement(short, refs[i])]).root :
          in_header \in {<<>>, <<AddresseeElement>>},
          refs \in {<<>>, <<1>>, <<3>>, <<1, 2>>} }
    \cup { Document(short, HeaderElement(short, <<>>, <<>>),
                    <<Leaf(Tag(short, "NoProduct"), "")>>).root }

XmlBatches(short) ==
    UNION {[1..len -> BatchElements(short)] : len \in 0..MaxBatch}

\* the keys under which a dict handed to json_to_message gives its
\* products: the field name, the reference tag and the short tag
ProductKeys == {"products", "Product", "product"}

\* the dicts of an iterable handed to json_to_message, all in one key style
BatchDicts(key) ==
    { D({<<"header", header>>}
        \cup (IF products = Absent THEN {} ELSE {<<key, products>>})) :
          header \in {D({}), HeaderWithLists},
          products \in {Absent, L(<<>>), L(<<ProductPlain>>),
                        L(<<ProductIdentified>>)} }

JsonBatches(key) ==
    UNION {[1..len -> BatchDicts(key)] : len \in 0..MaxBatch}

\* a dict of the fields that are given
Fields(pairs) == D({p \in pairs : p[2] # Absent})

\* the dicts a SenderIdentifier is built from, by field name and by alias
SenderIdentifierInputs ==
    { Fields({<<"sender_id_type", type>>, <<"id_type_name", name>>,
              <<"id_value", value>>}) :
          type \in {S("01"), S("06"), S("99"), S(""), Absent},
          name \in {S("Scheme"), S(""), Absent},
          value \in {S("1"), S(""), Absent} }
    \cup { Fields({<<"SenderIDType", type>>, <<"IDValue", S("1")>>}) :
               type \in {S("06"), S("99")} }

IdentifierLists ==
    { L(<<>>),
      L(<<D({<<"sender_id_type", S("06")>>, <<"id_value", S("1")>>})>>),
      L(<<D({<<"sender_id_type", S("06")>>, <<"id_type_name", S("")>>,
             <<"id_value", S("1")>>})>>),
      L(<<D({<<"sender_id_type", S("01")>>, <<"id_type_name", S("")>>,
             <<"id_value", S("1")>>})>>),
      L(<<D({<<"sender_id_type", S("06")>>, <<"id_value", S("")>>})>>) }

\* the dicts a Sender is built from
SenderInputs ==
    { Fields({<<"sender_name", name>>, <<"sender_identifiers", identifiers>>}) :
          name \in {S("Test Publisher"), S(""), Absent},
          identifiers \in IdentifierLists \cup {Absent} }

\* the dicts a Header is built from
HeaderInputs ==
    { Fields({<<"sender", sender>>, <<"sent_date_time", sent>>,
              <<"default_language_of_text", language>>,
              <<"default_price_type", price>>,
              <<"default_currency_code", currency>>}) :
          sender \in { D({<<"sender_name", S("Test Publisher")>>}),
                       D({<<"sender_name", S("")>>}),
                       D({<<"sender_name", S("Test Publisher")>>,
                          <<"sender_identifiers",
                            L(<<D({<<"sender_id_type", S("06")>>,
                                   <<"id_type_name", S("")>>,
                                   <<"id_value", S("1")>>})>>)>>}) },
          sent \in {S("20231201"), S(""), S("2023-12-01")},
          language \in {S("eng"), S("zz"), S(""), Absent},
          price \in {S("01"), S("99"), Absent},
          currency \in {S("USD"), S("ZZZ"), Absent} }

\* the dicts a Product is built from, by field name and by alias
ProductInputs ==
    { Fields({<<IF aliased THEN "RecordReference" ELSE "record_reference",
                reference>>,
              <<IF aliased THEN "NotificationType" ELSE "notification_type",
                type>>,
              <<IF aliased THEN "DeletionText" ELSE "deletion_texts", texts>>,
              <<IF aliased THEN "ProductIdentifier" ELSE "product_identifiers",
                identifiers>>}) :
          aliased \in BOOLEAN,
          reference \in {S("r1"), Absent},
          type \in {S("03"), S("05"), S("99"), S(""), Absent},
          texts \in { Absent, L(<<>>), L(<<S("Removed in error")>>),
                      L(<<S("Removed in error"), S("Superseded")>>),
                      L(<<S("")>>), L(<<S(LongText)>>), S("Removed in error") },
          identifiers \in
              { Absent, L(<<>>),
                L(<<D({<<"product_id_type", S("15")>>,
                       <<"id_value", S("9780000000001")>>})>>),
                L(<<D({<<"ProductIDType", S("99")>>,
                       <<"IDValue", S("9780000000001")>>})>>) } }

\* the dicts a Header is built from, for the sent date-times of the model
DatedHeaderInputs ==
    { D({<<"sender", D({<<"sender_name", S("Test Publisher")>>})>>,
         <<key, S(sent)>>}) :
          key \in {"sent_date_time", "SentDateTime"}, sent \in DateTimeStrings }

BuildInputs(model) ==
    CASE model = "SenderIdentifier" -> SenderIdentifierInputs
      [] model = "Sender" -> SenderInputs
      [] model = "Header" -> HeaderInputs \cup DatedHeaderInputs
      [] model = "Product" -> ProductInputs

\* the list numbers and the codes looked up in the code lists
ListNumbers == {44, 9999, 0, 1, 5, -44}

CodesLookedUp == {"01", "06", "07", "16", "21", "99", "", "1", "016", "ISNI"}

\* the names looked up in the tables of the resolver
ResolveNames ==
    { "ONIXMessage", "Header", "Product", "NoProduct", "ONIXmessage", "header",
      "product", "x507", "Sender", "SenderName", "RecordReference", "sender",
      "UnknownTag", "unknowntag", "products", "sender_identifiers",
      "SenderIdentifier" }

\* the tags and the field names among them that are looked up in the
\* tables of parsers.fields
TagsConverted ==
    { "Header", "Product", "NoProduct", "Sender", "SenderName",
      "RecordReference", "SenderIdentifier" }

FieldsConverted == {"header", "product", "products", "sender", "sender_identifiers"}

----------------------------------------------------------------------------
(* Sources that are text or paths: _normalize_input of xml.py.  A text is  *)
(* a sequence of pieces, each a run of characters that the XML parser and   *)
(* the file system only tell apart as a whole.                              *)

MaxText == 3

MessageText == "<ONIXMessage>...</ONIXMessage>"
DeclaredText == "<?xml?><ONIXMessage>...</ONIXMessage>"
OtherText == "<Other/>"
StartTagText == "<ONIXMessage>"

\* the pieces whose first character is "<"
Angled == {MessageText, DeclaredText, OtherText, StartTagText}

Pieces == {" "} \cup Angled \cup {"message.xml", "broken.xml", "missing.xml"}

Texts == UNION {[1..len -> Pieces] : len \in 0..MaxText}

\* str.strip()
RECURSIVE lstrip(_)
lstrip(text) ==
    IF text # <<>> /\ Head(text) = " " THEN lstrip(Tail(text)) ELSE text

RECURSIVE rstrip(_)
rstrip(text) ==
    IF text # <<>> /\ text[Len(text)] = " "
    THEN rstrip(SubSeq(text, 1, Len(text) - 1))
    ELSE text

strip(text) == rstrip(lstrip(text))

\* str.startswith("<")
startswith_angle(text) == text # <<>> /\ Head(text) \in Angled

\* the files below the working directory, with what they hold
Files ==
    { <<(<<"message.xml">>), <<DeclaredText, " ">> >>,
      <<(<<"broken.xml">>), <<DeclaredText, StartTagText>> >> }

\* Path("") is the working directory
Directories == {<<>>}

\* Path.exists()
path_exists(path) == path \in {f[1] : f \in Files} \cup Directories

NoElement == Element("", {}, "", <<>>)

\* the root element of a document
RootOf(piece) ==
    IF piece = OtherText THEN Element("Other", {}, "", <<>>)
    ELSE Element("ONIXMessage", {<<"release", "3.1">>}, "",
                 <<HeaderElement(FALSE, <<>>, <<>>), ProductElement(FALSE, 1)>>)

\* what the XML parser takes: one document, white space around it, and
\* nothing before an XML declaration
well_formed(text) ==
    LET body == strip(text)
    IN /\ Len(body) = 1
       /\ body[1] \in {MessageText, DeclaredText, OtherText}
       /\ body[1] = DeclaredText => Head(text) = DeclaredText

\* _parse_xml_string
parse_xml_string(xml_str) ==
    IF well_formed(xml_str)
    THEN [raised |-> "none", root |-> RootOf(strip(xml_str)[1])]
    ELSE [raised |-> "ParseError", root |-> NoElement]

\* _parse_xml_file
parse_xml_file(path) ==
    IF path \in Directories
    THEN [raised |-> "OSError", root |-> NoElement]
    ELSE parse_xml_string((CHOOSE f \in Files : f[1] = path)[2])

\* the test of _normalize_input that tells XML text from a path
looks_like_xml_unstripped(str_source) == startswith_angle(str_source)

looks_like_xml(str_source) == startswith_angle(strip(str_source))

\* _normalize_input, for a source that is a str or a PathLike
normalize_source(kind, source) ==
    IF kind = "str" /\ looks_like_xml(source)
    THEN [as |-> "xml"] @@ parse_xml_string(source)
    ELSE IF path_exists(source)
         THEN [as |-> "path"] @@ parse_xml_file(source)
         ELSE [as |-> "path", raised |-> "FileNotFoundError", root |-> NoElement]

\* xml_to_message, for a source that is a str or a PathLike
xml_to_message_source(kind, source) ==
    LET n == normalize_source(kind, source)
        r == IF n.raised = "none" THEN xml_to_message(n.root, FALSE) ELSE Failure
    IN [kind |-> kind, text |-> source, as |-> n.as,
        raised |-> IF n.raised # "none" THEN n.raised
                   ELSE IF r.ok THEN "none" ELSE "ValidationError",
        ok |-> r.ok, msg |-> r.msg]

----------------------------------------------------------------------------
(* The initial state *)

vars ==
    <<held, message, pristine, doc, last, composite, cross, tables, resolved,
      built, batch, opened, looked>>

NoDoc == [fmt |-> "none", origin |-> "none", short |-> FALSE,
          root |-> NoElement, data |-> NoneV]

NoCall == [op |-> "none", short |-> FALSE, input |-> NoneV, ok |-> FALSE,
           msg |-> NoMessage]

NoComposite == [kind |-> "none", id_type |-> NoneV, id_type_name |-> NoneV,
                ok |-> FALSE, errors |-> {}]

NoCross == [done |-> FALSE, reference |-> Failure, short |-> Failure,
            from_reference |-> NoElement, from_short |-> NoElement]

NoResolved ==
    [name |-> "", short |-> "", reference |-> "", short_back |-> "",
     reference_back |-> "", short_known |-> FALSE, reference_known |-> FALSE,
     field |-> "", tag |-> ""]

NoBuilt == [model |-> "none", input |-> NoneV, normalized |-> NoneV,
            errors |-> {}, ok |-> FALSE]

NoBatch == [fmt |-> "none", short |-> FALSE, key |-> "", xml |-> <<>>,
            json |-> <<>>, lib |-> "none", after |-> <<>>]

NoOpened == [kind |-> "none", text |-> <<>>, as |-> "none", raised |-> "none",
             ok |-> FALSE, msg |-> NoMessage]

NoLooked == [done |-> FALSE, list_number |-> 0, code |-> "", list |-> NoneV,
             entry |-> NoneV]

Init ==
    /\ held = FALSE
    /\ message = NoMessage
    /\ pristine = FALSE
    /\ doc = NoDoc
    /\ last = NoCall
    /\ composite = NoComposite
    /\ cross = NoCross
    /\ tables = ImportedTables
    /\ resolved = NoResolved
    /\ built = NoBuilt
    /\ batch = NoBatch
    /\ opened = NoOpened
    /\ looked = NoLooked

----------------------------------------------------------------------------
(* The operations.  A new or changed message discards the document at      *)
(* hand, and every operation replaces the record of the last call.         *)

\* an operation on messages, documents or entities leaves the tables alone
\* and discards the records of the resolver, of the entity and of the batch
Elsewhere ==
    /\ resolved' = NoResolved
    /\ built' = NoBuilt
    /\ batch' = NoBatch
    /\ UNCHANGED <<tables, opened, looked>>

\* the entities and the iterables of the model are built and parsed with
\* the tables as the import of the parsers left them
Imported == tables = ImportedTables

\* constructors, parsers of iterables and lookups are functions of their
\* arguments and of the tables only: the order of such calls changes no
\* outcome, and the model makes each from a session whose last call was
\* none of them
Idle ==
    /\ composite = NoComposite
    /\ resolved = NoResolved
    /\ built = NoBuilt
    /\ batch = NoBatch
    /\ opened = NoOpened
    /\ looked = NoLooked

\* message = ONIXMessage(**data), once per run of the model; a failed
\* construction raises and leaves the application without a message
Construct(data) ==
    LET r == ONIXMessage(data)
    IN /\ ~held
       /\ Elsewhere
       /\ last' = [op |-> "construct", short |-> FALSE, input |-> data,
                   ok |-> r.ok, msg |-> r.msg]
       /\ held' = r.ok
       /\ message' = r.msg
       /\ pristine' = r.ok
       /\ doc' = NoDoc
       /\ composite' = NoComposite
       /\ cross' = NoCross

Mutate(op, changed) ==
    /\ held
    /\ message' = changed
    /\ pristine' = FALSE
    /\ doc' = NoDoc
    /\ last' = [NoCall EXCEPT !.op = op]
    /\ composite' = NoComposite
    /\ cross' = NoCross
    /\ Elsewhere
    /\ UNCHANGED held

\* message.no_product = value: the model configuration sets neither
\* validate_assignment nor frozen, so the attribute is simply assigned
SetNoProduct(value) ==
    Mutate("set_no_product", [message EXCEPT !.no_product = value])

\* message.products = [...]
SetProducts(products) ==
    Mutate("set_products", [message EXCEPT !.products = products])

\* message.products.append(product)
AppendProduct(product) ==
    /\ Len(message.products) < MaxProducts
    /\ Mutate("append_product",
              [message EXCEPT !.products = Append(@, product)])

\* message.products.clear()
ClearProducts ==
    Mutate("clear_products", [message EXCEPT !.products = <<>>])

\* message_to_xml / message_to_xml_string
SerializeXml(short_names) ==
    /\ held
    /\ doc' = [fmt |-> "xml", origin |-> "serialized", short |-> short_names,
               root |-> message_to_xml(message, short_names), data |-> NoneV]
    /\ last' = [NoCall EXCEPT !.op = "message_to_xml", !.short = short_names]
    /\ composite' = NoComposite
    /\ cross' = NoCross
    /\ Elsewhere
    /\ UNCHANGED <<held, message, pristine>>

\* message_to_dict / message_to_json
SerializeJson(short_names) ==
    /\ held
    /\ doc' = [fmt |-> "json", origin |-> "serialized", short |-> short_names,
               root |-> NoElement, data |-> message_to_dict(message, short_names)]
    /\ last' = [NoCall EXCEPT !.op = "message_to_dict", !.short = short_names]
    /\ composite' = NoComposite
    /\ cross' = NoCross
    /\ Elsewhere
    /\ UNCHANGED <<held, message, pristine>>

\* the application receives a document
LoadXml(document) ==
    /\ doc' = document
    /\ last' = [NoCall EXCEPT !.op = "load"]
    /\ composite' = NoComposite
    /\ cross' = NoCross
    /\ Elsewhere
    /\ UNCHANGED <<held, message, pristine>>

\* xml_to_message(doc, short_names=short_names)
ParseXml(short_names) ==
    /\ doc.fmt = "xml"
    /\ LET r == xml_to_message(doc.root, short_names)
       IN last' = [op |-> "xml_to_message", short |-> short_names,
                   input |-> NoneV, ok |-> r.ok, msg |-> r.msg]
    /\ composite' = NoComposite
    /\ cross' = NoCross
    /\ Elsewhere
    /\ UNCHANGED <<held, message, pristine, doc>>

\* json_to_message(doc, short_names=short_names)
ParseJson(short_names) ==
    /\ doc.fmt = "json"
    /\ LET r == json_to_message(doc.data, short_names)
       IN last' = [op |-> "json_to_message", short |-> short_names,
                   input |-> NoneV, ok |-> r.ok, msg |-> r.msg]
    /\ composite' = NoComposite
    /\ cross' = NoCross
    /\ Elsewhere
    /\ UNCHANGED <<held, message, pristine, doc>>

\* the document in short style that describes what a document in reference
\* style describes: every tag is replaced by its short tag
RECURSIVE to_short_document(_)
to_short_document(element) ==
    Element(to_short_tag(element.tag), element.attrib, element.text,
            [i \in 1..Len(element.children) |->
                to_short_document(element.children[i])])

\* the two paths of test_ref_to_short_equals_short_to_short, from the
\* reference-style document at hand
CompareStyles ==
    /\ doc.fmt = "xml"
    /\ ~doc.short
    /\ LET m1 == xml_to_message(doc.root, FALSE)
           m2 == xml_to_message(to_short_document(doc.root), TRUE)
       IN cross' = [done |-> TRUE, reference |-> m1, short |-> m2,
                    from_reference |->
                        IF m1.ok THEN message_to_xml(m1.msg, TRUE) ELSE NoElement,
                    from_short |->
                        IF m2.ok THEN message_to_xml(m2.msg, TRUE) ELSE NoElement]
    /\ last' = [NoCall EXCEPT !.op = "compare"]
    /\ composite' = NoComposite
    /\ Elsewhere
    /\ UNCHANGED <<held, message, pristine, doc>>

\* the type codes and scheme names composites are built from
IdTypes ==
    {S("01"), S("06"), S("02"), S("15"), S("10"), S("99"), S("9"), S("")}

IdTypeNames == {NoneV, S(""), S("Scheme")}

\* SenderIdentifier(...), ProductIdentifier(...), ...; the model builds
\* composites while the application holds nothing else, their validation
\* reading no other state
ConstructComposite(kind, id_type, id_type_name) ==
    /\ ~held
    /\ Idle
    /\ doc = NoDoc
    /\ composite' = [kind |-> kind, id_type |-> id_type,
                     id_type_name |-> id_type_name,
                     ok |-> construct_composite(kind, id_type, id_type_name),
                     errors |-> composite_errors(kind, id_type, id_type_name)]
    /\ last' = [NoCall EXCEPT !.op = "composite"]
    /\ cross' = NoCross
    /\ Elsewhere
    /\ UNCHANGED <<held, message, pristine, doc>>

\* to_short_tag(name), to_reference_tag(name), the lookups back, and
\* tag_to_field_name(name) and field_name_to_tag(name) for the names whose
\* generic conversion the model defines
Resolve(name) ==
    /\ ~held
    /\ Idle
    /\ doc = NoDoc
    /\ resolved' = [name |-> name,
                    short |-> to_short_tag(name),
                    reference |-> to_reference_tag(name),
                    short_back |-> to_reference_tag(to_short_tag(name)),
                    reference_back |-> to_short_tag(to_reference_tag(name)),
                    short_known |-> is_short_tag(to_short_tag(name)),
                    reference_known |-> is_reference_tag(to_reference_tag(name)),
                    field |-> IF name \in TagsConverted
                              THEN tag_to_field_name(name) ELSE "",
                    tag |-> IF name \in FieldsConverted
                            THEN field_name_to_tag(name) ELSE ""]
    /\ last' = [NoCall EXCEPT !.op = "resolve"]
    /\ composite' = NoComposite
    /\ cross' = NoCross
    /\ built' = NoBuilt
    /\ batch' = NoBatch
    /\ UNCHANGED <<held, message, pristine, doc, tables, opened, looked>>

\* an operation on the tables discards every record but that of the call
Retabled(op, t) ==
    /\ ~held
    /\ doc = NoDoc
    /\ tables' = t
    /\ last' = [NoCall EXCEPT !.op = op]
    /\ composite' = NoComposite
    /\ cross' = NoCross
    /\ resolved' = NoResolved
    /\ built' = NoBuilt
    /\ batch' = NoBatch
    /\ opened' = NoOpened
    /\ looked' = NoLooked
    /\ UNCHANGED <<held, message, pristine, doc>>

\* xml._register_models(), the canonical registration; run after a clear
\* it is the rebuild
RegisterModels ==
    Retabled("register_models",
             [register_models(tables) EXCEPT
                 !.phase = IF tables.phase = "cleared" THEN "rebuilt" ELSE @])

\* fields.clear_caches()
ClearCaches ==
    Retabled("clear_caches", [clear_caches(tables) EXCEPT !.phase = "cleared"])

\* tags._REFERENCE_TO_SHORT.clear(); tags._SHORT_TO_REFERENCE.clear()
ClearTagMaps ==
    Retabled("clear_tag_maps",
             [tables EXCEPT !.reference_to_short = {}, !.short_to_reference = {},
                            !.phase = "cleared"])

\* Header(**data), Sender(**data), SenderIdentifier(**data), for one of the
\* dicts of the model
Build(model) ==
    /\ ~held
    /\ Idle
    /\ doc = NoDoc
    /\ Imported
    /\ \E data \in BuildInputs(model) :
          built' = [model |-> model, input |-> data,
                    normalized |-> normalize_strings(data),
                    errors |-> entity_errors(model, data),
                    ok |-> entity_errors(model, data) = {}]
    /\ last' = [NoCall EXCEPT !.op = "build"]
    /\ composite' = NoComposite
    /\ cross' = NoCross
    /\ resolved' = NoResolved
    /\ batch' = NoBatch
    /\ UNCHANGED <<held, message, pristine, doc, tables, opened, looked>>

\* xml_to_message(elements, short_names=short_names), elements an iterable
\* of the model whose elements are distinct objects of one library
ParseXmlIterable(short_names) ==
    /\ ~held
    /\ Idle
    /\ doc = NoDoc
    /\ Imported
    /\ \E elements \in XmlBatches(short_names), lib \in ElementLibraries :
          LET r == xml_to_message(xml_normalize_input(elements), short_names)
          IN /\ batch' = [NoBatch EXCEPT !.fmt = "xml", !.short = short_names,
                                         !.xml = elements, !.lib = lib,
                                         !.after = elements_after(lib, elements)]
             /\ last' = [op |-> "xml_to_message_iterable", short |-> short_names,
                         input |-> NoneV, ok |-> r.ok, msg |-> r.msg]
    /\ composite' = NoComposite
    /\ cross' = NoCross
    /\ resolved' = NoResolved
    /\ built' = NoBuilt
    /\ UNCHANGED <<held, message, pristine, doc, tables, opened, looked>>

\* xml_to_message(source), source a str or a PathLike of the model
OpenXml(kind) ==
    /\ ~held
    /\ Idle
    /\ doc = NoDoc
    /\ Imported
    /\ \E source \in Texts :
          LET r == xml_to_message_source(kind, source)
          IN /\ opened' = r
             /\ last' = [op |-> "xml_to_message_source", short |-> FALSE,
                         input |-> NoneV, ok |-> r.ok, msg |-> r.msg]
    /\ composite' = NoComposite
    /\ cross' = NoCross
    /\ resolved' = NoResolved
    /\ built' = NoBuilt
    /\ batch' = NoBatch
    /\ UNCHANGED <<held, message, pristine, doc, tables, looked>>

\* get_list(list_number) and get_code(list_number, code)
Lookup(list_number, code) ==
    /\ ~held
    /\ Idle
    /\ doc = NoDoc
    /\ looked' = [done |-> TRUE, list_number |-> list_number, code |-> code,
                  list |-> get_list(list_number),
                  entry |-> get_code(list_number, code)]
    /\ last' = [NoCall EXCEPT !.op = "get_code"]
    /\ composite' = NoComposite
    /\ cross' = NoCross
    /\ resolved' = NoResolved
    /\ built' = NoBuilt
    /\ batch' = NoBatch
    /\ UNCHANGED <<held, message, pristine, doc, tables, opened>>

\* json_to_message(dicts, short_names=short_names), dicts an iterable of
\* the model that gives its products under the given key
ParseJsonIterable(key, short_names) ==
    /\ ~held
    /\ Idle
    /\ doc = NoDoc
    /\ Imported
    /\ \E dicts \in JsonBatches(key) :
          LET r == json_to_message(json_normalize_input(dicts), short_names)
          IN /\ batch' = [NoBatch EXCEPT !.fmt = "json", !.short = short_names,
                                         !.key = key, !.json = dicts]
             /\ last' = [op |-> "json_to_message_iterable", short |-> short_names,
                         input |-> NoneV, ok |-> r.ok, msg |-> r.msg]
    /\ composite' = NoComposite
    /\ cross' = NoCross
    /\ resolved' = NoResolved
    /\ built' = NoBuilt
    /\ UNCHANGED <<held, message, pristine, doc, tables, opened, looked>>

Next ==
    \/ \E data \in ConstructInputs : Construct(data)
    \/ \E value \in BOOLEAN : SetNoProduct(value)
    \/ \E products \in ProductLists : SetProducts(products)
    \/ \E product \in Products : AppendProduct(product)
    \/ ClearProducts
    \/ \E short_names \in BOOLEAN : SerializeXml(short_names)
    \/ \E short_names \in BOOLEAN : SerializeJson(short_names)
    \/ \E document \in ExternalDocuments : LoadXml(document)
    \/ \E short_names \in BOOLEAN : ParseXml(short_names)
    \/ \E short_names \in BOOLEAN : ParseJson(short_names)
    \/ CompareStyles
    \/ \E kind \in Composites, id_type \in IdTypes, id_type_name \in IdTypeNames :
          ConstructComposite(kind, id_type, id_type_name)

Spec == Init /\ [][Next]_vars

\* the sessions that hold no message and no document: they build entities
\* and composites, parse iterables, look names up and clear and rebuild
\* the tables
LibraryNext ==
    \/ \E kind \in Composites, id_type \in IdTypes, id_type_name \in IdTypeNames :
          ConstructComposite(kind, id_type, id_type_name)
    \/ \E name \in ResolveNames : Resolve(name)
    \/ RegisterModels
    \/ ClearCaches
    \/ ClearTagMaps
    \/ \E model \in Entities : Build(model)
    \/ \E short_names \in BOOLEAN : ParseXmlIterable(short_names)
    \/ \E key \in ProductKeys, short_names \in BOOLEAN :
          ParseJsonIterable(key, short_names)
    \/ \E kind \in {"str", "PathLike"} : OpenXml(kind)
    \/ \E list_number \in ListNumbers, code \in CodesLookedUp :
          Lookup(list_number, code)

LibrarySpec == Init /\ [][LibraryNext]_vars

\* every key of the message is one the model walks
KeysKnown ==
    LET known == {KeyOrder[i] : i \in 1..Len(KeyOrder)}
    IN /\ Keys(message.rest) \subseteq known
       /\ message.header.k = "dict" => Keys(message.header.d) \subseteq known
       /\ Keys(last.msg.rest) \subseteq known
       /\ last.msg.header.k = "dict" => Keys(last.msg.header.d) \subseteq known

----------------------------------------------------------------------------
(* The claims *)

ChildrenTagged(element, tag) == SelectSeq(element.children, LAMBDA c : c.tag = tag)

\* the last call parsed, in the style it was written in, the XML document at hand
ParsedInStyle ==
    last.op = "xml_to_message" /\ doc.fmt = "xml" /\ last.short = doc.short

\* C1: parsing the XML serialisation of a validly constructed message, in
\* the tag style it was serialised in, returns a message equal to it
XmlRoundTrip ==
    ParsedInStyle /\ doc.origin = "serialized" /\ pristine
        => last.ok /\ last.msg = message

\* C2: parsing the dict serialisation of a validly constructed message, in
\* the tag style it was serialised in, returns a message equal to it
JsonRoundTrip ==
    last.op = "json_to_message" /\ doc.fmt = "json" /\ last.short = doc.short
    /\ doc.origin = "serialized" /\ pristine
        => last.ok /\ last.msg = message

\* C3: a reference-style document and the short-style document describing
\* the same message parse to equal messages, whose short-style
\* serialisations are the same document
CrossStyleEquivalence ==
    cross.done /\ cross.reference.ok
        => /\ cross.short.ok
           /\ cross.short.msg = cross.reference.msg
           /\ cross.from_short = cross.from_reference

\* the products and the flag given to the last construction
GivenProducts == GetOr(last.input.d, "products", L(<<>>)).l

GivenFlag == GetOr(last.input.d, "no_product", Absent)

\* C4: a non-empty product list with no_product=True is refused; an empty
\* or omitted list without the flag gives no_product True; a non-empty list
\* without the flag gives no_product False
ConstructionRule ==
    last.op = "construct" =>
        /\ GivenProducts # <<>> /\ GivenFlag = B(TRUE) => ~last.ok /\ ~held
        /\ HasKey(last.input.d, "header") /\ GivenFlag = Absent =>
              /\ last.ok /\ held /\ message = last.msg
              /\ message.no_product = (GivenProducts = <<>>)

ConstructionRuleWitness ==
    /\ last.op = "construct" /\ last.ok /\ GivenFlag = Absent
    /\ GivenProducts = <<>> /\ message.no_product

\* C5: no message the application holds has both a non-empty product list
\* and no_product True, whatever was assigned to it after its construction
MutualExclusion == held => ~(message.products # <<>> /\ message.no_product)

\* C6: the serialisation of a message without products has exactly one
\* no-product marker and no product element; that of a message with
\* products has no marker and one product element per product, in order
SerializedProducts ==
    doc.fmt = "xml" /\ doc.origin = "serialized" =>
        LET markers == ChildrenTagged(doc.root, Tag(doc.short, "NoProduct"))
            products == ChildrenTagged(doc.root, Tag(doc.short, "Product"))
        IN IF message.products = <<>>
           THEN Len(markers) = 1 /\ Len(products) = 0
           ELSE /\ Len(markers) = 0
                /\ Len(products) = Len(message.products)
                /\ \A i \in 1..Len(products) :
                      products[i] = dict_to_element(Tag(doc.short, "Product"),
                                                    message.products[i].d, doc.short)

\* C7: a document whose body is the empty no-product marker and no product
\* record parses to a message with no_product True and no products
MarkerParses ==
    LET marker == Tag(doc.short, "NoProduct")
    IN (/\ ParsedInStyle
        /\ ChildrenTagged(doc.root, marker) = <<Leaf(marker, "")>>
        /\ ChildrenTagged(doc.root, Tag(doc.short, "Product")) = <<>>)
           => last.ok /\ last.msg.no_product /\ last.msg.products = <<>>

\* the header element of the document at hand
HeaderOfDoc == doc.root.children[1]

\* C8: n occurrences of a repeatable element, one included, parse to a list
\* of n items in document order
RepeatableIsList ==
    ParsedInStyle /\ doc.origin = "external" /\ last.ok =>
        LET products == ChildrenTagged(doc.root, Tag(doc.short, "Product"))
            addressees == ChildrenTagged(HeaderOfDoc, "Addressee")
            identifiers == ChildrenTagged(HeaderOfDoc.children[1], "SenderIdentifier")
            header == last.msg.header.d
        IN /\ Len(last.msg.products) = Len(products)
           /\ \A i \in 1..Len(products) :
                 Get(last.msg.products[i].d, "record_reference") = S(RecordRef(i))
           /\ addressees # <<>> =>
                 /\ HasKey(header, "addressees")
                 /\ Get(header, "addressees").k = "list"
                 /\ Len(Get(header, "addressees").l) = Len(addressees)
           /\ identifiers # <<>> =>
                 /\ HasKey(Get(header, "sender").d, "sender_identifiers")
                 /\ Get(Get(header, "sender").d, "sender_identifiers").k = "list"
                 /\ Len(Get(Get(header, "sender").d, "sender_identifiers").l)
                       = Len(identifiers)

RECURSIVE HasUnknownElement(_)
HasUnknownElement(element) ==
    \/ element.tag = "UnknownElement"
    \/ \E i \in 1..Len(element.children) : HasUnknownElement(element.children[i])

\* C9: a document with an element its parent does not define, under the
\* root or inside a composite, is refused
UnknownRejected ==
    last.op = "xml_to_message" /\ doc.fmt = "xml" /\ HasUnknownElement(doc.root)
        => ~last.ok

\* the type codes other than "01" that the list of each composite defines
OtherCodes(kind) ==
    CASE kind \in {"SenderIdentifier", "AddresseeIdentifier", "RecordSourceIdentifier"}
            -> {"06"}
      [] kind = "ProductIdentifier" -> {"02", "15"}
      [] kind = "EpubLicenseExpression" -> {"10"}
      [] kind = "ProductClassification" -> {"02"}
      [] OTHER -> {}

\* C10: with the proprietary type "01" a composite needs a scheme name;
\* with "01" and a name, or with another code of its list and no name, it
\* is built
ProprietaryRule ==
    composite.kind # "none" =>
        LET unnamed == composite.id_type_name \in {NoneV, S("")}
        IN /\ composite.id_type = S("01") /\ unnamed => ~composite.ok
           /\ composite.id_type = S("01") /\ ~unnamed => composite.ok
           /\ composite.id_type.s \in OtherCodes(composite.kind) /\ unnamed
                 => composite.ok

\* the list each type code is taken from
ListOf(kind) ==
    CASE kind \in {"SenderIdentifier", "AddresseeIdentifier", "RecordSourceIdentifier"}
            -> 44
      [] kind = "ProductIdentifier" -> 5
      [] kind = "EpubLicenseExpression" -> 218
      [] kind = "ProductClassification" -> 9
      [] OTHER -> 0

\* values no ONIX list defines as a code: "99" has the format of a code,
\* "9" has not
AbsentCodes == {"99", "9"}

\* the composites whose validator checks the format before the list
FormatChecked ==
    {"RecordSourceIdentifier", "EpubLicenseExpression", "ProductClassification"}

NamesList(errors, list_number) == \E e \in errors : e.list = list_number

\* the code fields of the entities built from dicts, with their lists
CodeFields ==
    { <<"SenderIdentifier", "sender_id_type", "SenderIDType", 44>>,
      <<"Header", "default_language_of_text", "DefaultLanguageOfText", 74>>,
      <<"Header", "default_price_type", "DefaultPriceType", 58>>,
      <<"Header", "default_currency_code", "DefaultCurrencyCode", 96>> }

\* a built entity whose code field f holds a value no list defines is
\* refused with an error that names the list of f
BuiltRejected ==
    \A f \in CodeFields :
        (built.model = f[1]
         /\ FieldValue(built.input.d, f[2], f[3]) \in {S("99"), S("zz"), S("ZZZ")})
        => ~built.ok /\ NamesList(built.errors, f[4])

\* C11 as stated: any value absent from the list of a code-valued field is
\* refused with an error that names the number of the list
CodeListRejectionAnyValue ==
    /\ (composite.kind # "none" /\ composite.id_type.s \in AbsentCodes)
         => ~composite.ok /\ NamesList(composite.errors, ListOf(composite.kind))
    /\ BuiltRejected

\* C11: a code absent from the list of a code-valued field is refused; the
\* error names the number of the list when the value has the format the
\* field asks for, and is the format error, which names no list, when a
\* field that checks the format is given a value of another format
CodeListRejection ==
    /\ (composite.kind # "none" /\ composite.id_type.s \in AbsentCodes)
         => /\ ~composite.ok
            /\ IF composite.kind \in FormatChecked /\ composite.id_type.s = "9"
               THEN composite.errors = {Err("format", 0)}
               ELSE NamesList(composite.errors, ListOf(composite.kind))
    /\ BuiltRejected

CodeListRejectionWitness ==
    /\ composite.kind = "RecordSourceIdentifier"
    /\ composite.id_type = S("99")
    /\ ~composite.ok
    /\ NamesList(composite.errors, 44)

\* codes their ONIX lists define: "eng" in List 74, "01" in List 58 and
\* "USD" in List 96
DefinedCodes ==
    { <<"default_language_of_text", S("eng")>>, <<"default_price_type", S("01")>>,
      <<"default_currency_code", S("USD")>> }

\* C12: a Header whose sender and date are valid and whose default
\* language, price type and currency are codes of Lists 74, 58 and 96 is
\* built, with the three values as given
DefinedCodesAccepted ==
    (/\ built.model = "Header"
     /\ GetOr(built.input.d, "sender", NoneV)
            = D({<<"sender_name", S("Test Publisher")>>})
     /\ GetOr(built.input.d, "sent_date_time", NoneV) = S("20231201")
     /\ \A p \in built.input.d :
            p[1] \in {q[1] : q \in DefinedCodes} => p \in DefinedCodes)
    => built.ok /\ DefinedCodes \cap built.input.d \subseteq built.normalized.d

\* the product carries at least one product identifier
Identified(product) ==
    /\ HasKey(product.d, "product_identifiers")
    /\ Get(product.d, "product_identifiers").k = "list"
    /\ Get(product.d, "product_identifiers").l # <<>>

\* C13: every product of a message that was constructed or parsed carries
\* at least one product identifier, a product without one being refused
ProductsIdentified ==
    (last.op \in {"construct", "xml_to_message", "json_to_message"} /\ last.ok)
    => \A i \in 1..Len(last.msg.products) : Identified(last.msg.products[i])

\* result is given with every "" replaced by None, at any depth, and with
\* nothing else changed
RECURSIVE EmptiedOf(_, _)
EmptiedOf(result, given) ==
    CASE given.k = "dict" ->
            /\ result.k = "dict"
            /\ Keys(result.d) = Keys(given.d)
            /\ Cardinality(result.d) = Cardinality(given.d)
            /\ \A key \in Keys(given.d) :
                   EmptiedOf(Get(result.d, key), Get(given.d, key))
      [] given.k = "list" ->
            /\ result.k = "list"
            /\ Len(result.l) = Len(given.l)
            /\ \A i \in 1..Len(given.l) : EmptiedOf(result.l[i], given.l[i])
      [] given = S("") -> result = NoneV
      [] OTHER -> result = given

\* the value of a field of the built entity, as it was given
GivenField(name) == GetOr(built.input.d, name, Absent)

\* the same for a field that may be given by its alias
GivenAs(name, alias) == GetOr(built.input.d, alias, GivenField(name))

\* C14: the validators of an entity see its input with every "" replaced
\* by None at any depth, keys and other values unchanged; so a required
\* string given as "" is refused as a missing one is, and a proprietary
\* type "01" with the name "" is refused
EmptyStringsNormalized ==
    built.model # "none" =>
        /\ EmptiedOf(built.normalized, built.input)
        /\ built.errors = entity_errors(built.model, built.normalized)
        /\ (built.model = "SenderIdentifier"
            /\ GivenAs("id_value", "IDValue") \in {S(""), Absent}) => ~built.ok
        /\ (built.model = "Header" /\ GivenField("sent_date_time") = S(""))
              => ~built.ok
        /\ (built.model = "SenderIdentifier"
            /\ GivenAs("sender_id_type", "SenderIDType") = S("01")
            /\ GivenAs("id_type_name", "IDTypeName") = S("")) => ~built.ok

\* a Sender one of whose identifiers, inside the list, has the name ""
EmptyStringsNormalizedWitness ==
    /\ built.model = "Sender"
    /\ GivenField("sender_identifiers").k = "list"
    /\ \E i \in 1..Len(GivenField("sender_identifiers").l) :
          /\ <<"id_type_name", S("")>>
                \in GivenField("sender_identifiers").l[i].d
          /\ <<"id_type_name", NoneV>>
                \in Get(built.normalized.d, "sender_identifiers").l[i].d

\* C15: a name the tag tables do not hold is returned as it is by
\* to_short_tag and by to_reference_tag
UnmappedPassThrough ==
    resolved.name # "" =>
        /\ ~HasKey(tables.reference_to_short, resolved.name)
              => resolved.short = resolved.name
        /\ ~HasKey(tables.short_to_reference, resolved.name)
              => resolved.reference = resolved.name

UnmappedPassThroughWitness ==
    /\ resolved.name = "UnknownTag"
    /\ resolved.short = "UnknownTag"
    /\ resolved.reference = "UnknownTag"

\* the reference tags of the registered models that the model looks up
RegisteredReferenceTags ==
    { "ONIXMessage", "Header", "Product", "NoProduct", "Sender", "SenderName",
      "RecordReference" }

\* C16: with the tables as imported, a registered reference tag has a
\* registered short tag from which to_reference_tag gives it back, and a
\* registered short tag is given back by to_short_tag from its reference
\* tag
TagRoundTrip ==
    (Imported /\ resolved.name # "") =>
        /\ resolved.name \in RegisteredReferenceTags
              => resolved.short_known /\ resolved.short_back = resolved.name
        /\ is_short_tag(resolved.name) => resolved.reference_back = resolved.name

\* the mappings of the tables, the phase of the session left out
Mappings(t) ==
    <<t.reference_to_short, t.short_to_reference, t.tag_to_field, t.field_to_tag>>

\* every key of the table has one entry
SingleValued(pairs) == \A p, q \in pairs : p[1] = q[1] => p = q

BeforeClear(name) ==
    [short |-> GetOr(ImportedTables.reference_to_short, name, name),
     reference |-> GetOr(ImportedTables.short_to_reference, name, name),
     field |-> IF name \in TagsConverted
               THEN GetOr(ImportedTables.tag_to_field, name, camel_to_snake(name))
               ELSE "",
     tag |-> IF name \in FieldsConverted
             THEN GetOr(ImportedTables.field_to_tag, name, snake_to_camel(name))
             ELSE ""]

\* C18: once the tables were cleared and the registration has run again
\* every lookup gives what it gave before the clear; while the caches are
\* cleared the plural mappings are not in effect
ClearedAndRebuilt ==
    resolved.name # "" =>
        /\ tables.phase = "rebuilt"
              => /\ resolved.short = BeforeClear(resolved.name).short
                 /\ resolved.reference = BeforeClear(resolved.name).reference
                 /\ resolved.field = BeforeClear(resolved.name).field
                 /\ resolved.tag = BeforeClear(resolved.name).tag
        /\ (tables.phase = "cleared" /\ tables.tag_to_field = {})
              => /\ resolved.name = "Product" => resolved.field # "products"
                 /\ resolved.name = "products" => resolved.tag # "Product"

\* the header an element of the model describes
DescribedHeader(root) ==
    D({ <<"sender", D({<<"sender_name", S("Test Publisher")>>})>>,
        <<"sent_date_time", S("20231201")>> }
      \cup IF ChildrenTagged(root.children[1], "Addressee") # <<>>
           THEN {<<"addressees", L(<<D({<<"addressee_name", S("Reader")>>})>>)>>}
           ELSE {})

\* the products the elements of an iterable describe, in the order given
RECURSIVE DescribedProducts(_, _)
DescribedProducts(elements, short) ==
    IF elements = <<>> THEN <<>>
    ELSE LET products == ChildrenTagged(Head(elements), Tag(short, "Product"))
         IN [i \in 1..Len(products) |->
                D({<<"record_reference", S(products[i].children[1].text)>>})]
            \o DescribedProducts(Tail(elements), short)

\* C19: xml_to_message of an iterable of elements returns one message with
\* the header of the first element and the products of all of them, in the
\* order in which they were given
XmlIterableMerged ==
    (last.op = "xml_to_message_iterable" /\ batch.xml # <<>>) =>
        /\ last.ok
        /\ last.msg.header = DescribedHeader(batch.xml[1])
        /\ last.msg.products = DescribedProducts(batch.xml, batch.short)

\* the products the dicts of an iterable give under the key of their
\* style, in the order given
RECURSIVE GivenUnder(_, _)
GivenUnder(key, dicts) ==
    IF dicts = <<>> THEN <<>>
    ELSE GetOr(Head(dicts).d, key, L(<<>>)).l \o GivenUnder(key, Tail(dicts))

\* C20: json_to_message of an iterable of dicts returns one message with
\* the header of the first dict and the products of all of them, in the
\* order given, whether the dicts are keyed by field name or, with
\* short_names, by reference tag or by short tag
JsonIterableMerged ==
    (last.op = "json_to_message_iterable" /\ batch.json # <<>>
     /\ (batch.key = "products" \/ batch.short))
    => /\ last.ok
       /\ last.msg.header = Get(batch.json[1].d, "header")
       /\ last.msg.products = GivenUnder(batch.key, batch.json)

\* C21: a parser given an empty iterable returns no message: the header
\* it makes up lacks the sender and the date a header must have
EmptyIterableRejected ==
    (/\ last.op \in {"xml_to_message_iterable", "json_to_message_iterable"}
     /\ batch.xml = <<>>
     /\ batch.json = <<>>)
    => ~last.ok

\* C22: a str source is taken for XML text exactly when it begins with "<"
\* once white space is trimmed, and for a path otherwise; a path that does
\* not exist raises FileNotFoundError and malformed XML a parse error, and
\* neither gives a validation error or a message
BeginsWithAngle(text) ==
    \E i \in 1..Len(text) :
        /\ text[i] \in Angled
        /\ \A j \in 1..(i - 1) : text[j] = " "

SourceDispatch ==
    (opened.kind # "none") =>
        /\ (opened.kind = "str") =>
               (opened.as = "xml" <=> BeginsWithAngle(opened.text))
        /\ (opened.kind = "PathLike") => (opened.as = "path")
        /\ (opened.as = "path" /\ ~path_exists(opened.text)) =>
               (opened.raised = "FileNotFoundError")
        /\ (opened.as = "xml" /\ ~well_formed(opened.text)) =>
               (opened.raised = "ParseError")
        /\ (opened.as = "path" /\ opened.text = <<"broken.xml">>) =>
               (opened.raised = "ParseError")
        /\ (opened.raised \in {"FileNotFoundError", "ParseError"}) =>
               (~opened.ok /\ opened.msg = NoMessage)

SourceDispatchWitness ==
    /\ opened.kind = "str"
    /\ opened.text = <<" ", StartTagText>>
    /\ opened.as = "xml"
    /\ opened.raised = "ParseError"

SourceDispatchMissingWitness ==
    /\ opened.kind = "PathLike"
    /\ opened.text = <<MessageText>>
    /\ opened.raised = "FileNotFoundError"

SourceDispatchParsedWitness ==
    /\ opened.kind = "str"
    /\ opened.text # <<>>
    /\ Head(opened.text) = " "
    /\ opened.ok

\* C23: get_list(n) and get_code(n, c) return the registered list, the
\* registered entry or None; get_code(n, c) is None exactly when list n is
\* not registered or c is no code of it, and is get_list(n).get(c) otherwise
RegisteredLists == {44}

CodesOf(n) == IF n = 44 THEN {"01", "06", "07", "16", "21"} ELSE {}

LookupTotal ==
    looked.done =>
        /\ (looked.list = NoneV) <=> (looked.list_number \notin RegisteredLists)
        /\ (looked.list # NoneV) => (looked.list.number = looked.list_number)
        /\ (looked.entry = NoneV) <=>
               \/ looked.list_number \notin RegisteredLists
               \/ looked.code \notin CodesOf(looked.list_number)
        /\ (looked.entry # NoneV) =>
               /\ looked.entry = CodeList_get(looked.list, looked.code)
               /\ looked.entry.list_number = looked.list_number
               /\ looked.entry.code = looked.code

LookupTotalWitness ==
    /\ looked.done
    /\ looked.list_number = 9999
    /\ looked.code = "01"
    /\ looked.entry = NoneV

LookupFoundWitness ==
    /\ looked.done
    /\ looked.list_number = 44
    /\ looked.code = "16"
    /\ looked.entry # NoneV
    /\ looked.entry.heading = "ISNI"

\* C24: a Header is accepted for its sent date-time exactly when the value
\* is YYYYMMDD, YYYYMMDDThhmm, YYYYMMDDThhmmZ, YYYYMMDDThhmmss or
\* YYYYMMDDThhmmssZ with a date of the calendar and a time of the clock;
\* every other string is refused with the error of the format
ValidDate(chars) ==
    /\ AllDigits(chars)
    /\ NumberOf(SubSeq(chars, 1, 4)) >= 1
    /\ NumberOf(SubSeq(chars, 5, 6)) \in 1..12
    /\ NumberOf(SubSeq(chars, 7, 8)) \in
           1..DaysIn(NumberOf(SubSeq(chars, 5, 6)), NumberOf(SubSeq(chars, 1, 4)))

ValidTime(chars) ==
    /\ AllDigits(chars)
    /\ NumberOf(SubSeq(chars, 1, 2)) \in 0..23
    /\ NumberOf(SubSeq(chars, 3, 4)) \in 0..59
    /\ (Len(chars) = 6) => (NumberOf(SubSeq(chars, 5, 6)) \in 0..59)

HasOnixShape(chars) ==
    \/ Len(chars) = 8 /\ ValidDate(chars)
    \/ /\ Len(chars) \in {13, 15}
       /\ ValidDate(SubSeq(chars, 1, 8))
       /\ chars[9] = "T"
       /\ ValidTime(SubSeq(chars, 10, Len(chars)))
    \/ /\ Len(chars) \in {14, 16}
       /\ ValidDate(SubSeq(chars, 1, 8))
       /\ chars[9] = "T"
       /\ ValidTime(SubSeq(chars, 10, Len(chars) - 1))
       /\ chars[Len(chars)] = "Z"

SentDateTimeShapes ==
    (/\ built.model = "Header"
     /\ GivenAs("sent_date_time", "SentDateTime") # Absent
     /\ GivenAs("sent_date_time", "SentDateTime").s # "")
    => (Err("format", 0) \notin built.errors
        <=> HasOnixShape(Chars(GivenAs("sent_date_time", "SentDateTime").s)))

\* the five shapes are accepted and the strings of the tests are refused
SentDateTimeTested ==
    (/\ built.model = "Header"
     /\ GivenAs("sent_date_time", "SentDateTime") # Absent)
    => LET sent == GivenAs("sent_date_time", "SentDateTime").s
       IN /\ (sent \in {"20231201", "20231201T1030", "20231201T1030Z",
                        "20231201T103000", "20231201T103000Z",
                        "20240229T235959Z"})
                 => (Err("format", 0) \notin built.errors)
          /\ (sent \in {"2023-12-01", "2023-12-01T12:00:00", "not-a-date",
                        "20231301", "20230229", "20231201T103060", "Z",
                        "20231201T"})
                 => (Err("format", 0) \in built.errors)

\* C25: a Product that gives deletion texts is accepted only when its
\* notification type is "05" and is refused for the texts otherwise; a
\* Product that gives none is never refused for them
DeletionTexts ==
    LET given == GivenAs("deletion_texts", "DeletionText")
    IN IF given # Absent /\ given.k = "list" THEN given.l ELSE <<>>

DeletionTextsAllowed ==
    (built.model = "Product") =>
        /\ (DeletionTexts # <<>> /\ built.ok)
               => (GivenAs("notification_type", "NotificationType") = S("05"))
        /\ (/\ DeletionTexts # <<>>
            /\ GivenAs("notification_type", "NotificationType") # S("05")
            /\ \A i \in 1..Len(DeletionTexts) :
                   DeletionTexts[i] \notin {S(""), S(LongText)}
            /\ entity_errors("Product",
                             Fields(built.input.d \
                                    {<<"deletion_texts", L(DeletionTexts)>>,
                                     <<"DeletionText", L(DeletionTexts)>>})) = {})
               => (built.errors = {Err("deletion_not_allowed", 0)})
        /\ (DeletionTexts = <<>>)
               => (Err("deletion_not_allowed", 0) \notin built.errors)

\* a product that is valid but for its deletion text is refused
DeletionTextsAllowedWitness ==
    /\ built.model = "Product"
    /\ DeletionTexts = <<S("Removed in error")>>
    /\ GivenAs("notification_type", "NotificationType") = S("03")
    /\ built.errors = {Err("deletion_not_allowed", 0)}

\* a deletion is accepted with its text, another product without one
DeletionAcceptedWitness ==
    /\ built.model = "Product"
    /\ DeletionTexts # <<>>
    /\ GivenAs("notification_type", "NotificationType") = S("05")
    /\ built.ok

NoDeletionAcceptedWitness ==
    /\ built.model = "Product"
    /\ DeletionTexts = <<>>
    /\ GivenAs("notification_type", "NotificationType") = S("03")
    /\ built.ok

\* C26: a document in which SenderName occurs twice under one Sender is
\* refused by the parser; neither the first nor the last name is kept
SenderNames(root) ==
    SelectSeq(descendants(root), LAMBDA e : e.tag = "SenderName")

DuplicateScalarRejected ==
    (/\ last.op = "xml_to_message"
     /\ doc.fmt = "xml"
     /\ doc.short = last.short
     /\ Len(SenderNames(doc.root)) > 1)
    => ~last.ok

\* C27: a message constructed with its header and its products keyed by
\* the reference tags Header and Product is constructed as the one keyed by
\* the field names header and products is, and equals it, so that the dict,
\* JSON and XML serialisations of the two are the same
AliasKeysEquivalent ==
    (last.op = "construct" /\ HasKey(last.input.d, "Header"))
    => LET named == ONIXMessage(Arguments(Get(last.input.d, "Header"),
                                          Get(last.input.d, "Product"),
                                          Absent, Absent, {}))
       IN /\ last.ok = named.ok
          /\ last.msg = named.msg
          /\ last.ok => /\ model_dump(last.msg) = model_dump(named.msg)
                        /\ message_to_xml(last.msg, FALSE)
                               = message_to_xml(named.msg, FALSE)

\* C28: the root of a serialised message and every element below it are in
\* the reference namespace when short_names is False and in the short
\* namespace when it is True, and the root carries the release of the
\* message
ReferenceNamespace == "http://ns.editeur.org/onix/3.1/reference"

ShortNamespace == "http://ns.editeur.org/onix/3.1/short"

\* the namespace of a tag {uri}local; a tag without braces has none
NamespaceOf(tag) ==
    CASE tag \in { "{http://ns.editeur.org/onix/3.1/reference}ONIXMessage",
                   "{http://ns.editeur.org/onix/3.1/reference}Header",
                   "{http://ns.editeur.org/onix/3.1/reference}Product",
                   "{http://ns.editeur.org/onix/3.1/reference}NoProduct" }
             -> ReferenceNamespace
      [] tag \in { "{http://ns.editeur.org/onix/3.1/short}ONIXmessage",
                   "{http://ns.editeur.org/onix/3.1/short}header",
                   "{http://ns.editeur.org/onix/3.1/short}product",
                   "{http://ns.editeur.org/onix/3.1/short}x507" }
             -> ShortNamespace
      [] OTHER -> ""

Serialized == doc.fmt = "xml" /\ doc.origin = "serialized" /\ held

ReleaseSet ==
    Serialized => (<<"release", message.release>> \in doc.root.attrib)

SerializedInNamespace ==
    Serialized =>
        /\ \A i \in 1..Len(<<doc.root>> \o descendants(doc.root)) :
               NamespaceOf((<<doc.root>> \o descendants(doc.root))[i].tag)
                   = IF doc.short THEN ShortNamespace ELSE ReferenceNamespace
        /\ <<"release", message.release>> \in doc.root.attrib

\* C29 as stated: to_reference_tag(to_short_tag(t)) is t for every name t
ThereAndBackAnyName ==
    resolved.name # "" => resolved.short_back = resolved.name

\* C29: to_reference_tag(to_short_tag(t)) is t for every name t that is a
\* reference tag of the table or is no short tag of it, the names that pass
\* through to_short_tag unchanged included
ThereAndBack ==
    (/\ resolved.name # ""
     /\ is_reference_tag(resolved.name) \/ ~is_short_tag(resolved.name))
    => resolved.short_back = resolved.name

\* a tag of the table goes to its short tag and comes back
ThereAndBackWitness ==
    /\ resolved.name = "Header"
    /\ resolved.short = "header"
    /\ resolved.short_back = "Header"

\* a name the table does not hold passes through both ways
ThereAndBackUnmappedWitness ==
    /\ resolved.name = "UnknownTag"
    /\ resolved.short = "UnknownTag"
    /\ resolved.short_back = "UnknownTag"

\* C30: xml_to_message of an iterable of elements leaves every element as
\* it was, so that parsing the same elements again returns an equal message
InputsUnchanged ==
    (last.op = "xml_to_message_iterable")
    => /\ batch.after = batch.xml
       /\ xml_to_message(xml_normalize_input(batch.after), batch.short)
              = [ok |-> last.ok, msg |-> last.msg]

\* the same for the elements of xml.etree alone
InputsUnchangedStdlib ==
    (last.op = "xml_to_message_iterable" /\ batch.lib = "stdlib")
    => /\ batch.after = batch.xml
       /\ xml_to_message(xml_normalize_input(batch.after), batch.short)
              = [ok |-> last.ok, msg |-> last.msg]

====
